---- MODULE Spec2Model ----
(***************************************************************************)
(* iottrafficgen: the core execution engine (core.py), the marker system   *)
(* (markers.py) and the helpers they use (errors.py), as a state machine.  *)
(*                                                                         *)
(* One behaviour is one invocation of run_scenario: the scenario document, *)
(* the --dry-run flag and the marker configuration are fixed in Init; the  *)
(* engine walks the runs with one action per step of execute_run.  The     *)
(* child process and the user (SIGINT to the engine) are the environment:  *)
(* ChildWrite, ChildExit and UserSigint interleave with the engine's steps.*)
(* The user's SIGINT is modelled while a child is running, which is the    *)
(* phase the engine's handler is about.                                    *)
(*                                                                         *)
(* Time is a clock `now` counted in ticks, TicksPerSec ticks to a second;  *)
(* time.sleep(1) and blocking reads take their nominal time plus up to     *)
(* MaxOverhead ticks, proc.wait(timeout=10) that times out takes the full  *)
(* timeout.  The clock is taken to be monotonic.                           *)
(*                                                                         *)
(* The state space is explored in two parts, told apart by `fine`: a       *)
(* scenario of one run with the whole environment (scheduling overhead and *)
(* a child that writes output), and scenarios of up to MaxRuns runs with   *)
(* children that write nothing and end with 0, 1 or 130 (or by the         *)
(* engine's signal), and steps that take their nominal time.               *)
(***************************************************************************)
EXTENDS Integers, Sequences, FiniteSets, TLC

\* ---------------------------------------------------------------- bounds
MaxRuns == 2
TicksPerSec == 2
MaxOverhead == 1
MaxLines == 1
MaxUserSigints == 1
MaxConfigs == 2
MaxEntries == 2
MaxMessages == 3
MaxWorkers == 2
MaxQueries == 3
MaxCycles == 2
MaxPublishes == 4
MaxDocRuns == 2

\* ------------------------------------------------------ program constants
GraceSeconds == 10
DryRunStdout == "[dry run - no output]"
PlaceholderMarker == "_PLACEHOLDER"

\* ------------------------------------------------------- string helpers
\* mutant: the substring is looked for at the end of the string only
Contains_SuffixOnly(s, sub) ==
    Len(s) >= Len(sub) /\ SubSeq(s, Len(s) - Len(sub) + 1, Len(s)) = sub

\* Python's `sub in s` on strings
Contains(s, sub) ==
    \E k \in 1..(Len(s) - Len(sub) + 1) : SubSeq(s, k, k + Len(sub) - 1) = sub

Digits == <<"0", "1", "2", "3", "4", "5", "6", "7", "8", "9">>

IsDigit(c) == \E d \in 1..10 : Digits[d] = c

DigitVal(c) == (CHOOSE d \in 1..10 : Digits[d] = c) - 1

RECURSIVE DigitsVal(_)
DigitsVal(s) ==
    IF Len(s) = 0 THEN 0
    ELSE 10 * DigitsVal(SubSeq(s, 1, Len(s) - 1)) + DigitVal(SubSeq(s, Len(s), Len(s)))

AllDigits(s) == Len(s) > 0 /\ \A k \in 1..Len(s) : IsDigit(SubSeq(s, k, k))

\* int(duration_str): [ok |-> FALSE] stands for ValueError
ParseInt(s) ==
    IF AllDigits(s) THEN [ok |-> TRUE, val |-> DigitsVal(s)]
    ELSE IF Len(s) > 1 /\ SubSeq(s, 1, 1) = "-" /\ AllDigits(SubSeq(s, 2, Len(s)))
         THEN [ok |-> TRUE, val |-> 0 - DigitsVal(SubSeq(s, 2, Len(s)))]
    ELSE IF Len(s) > 1 /\ SubSeq(s, 1, 1) = "+" /\ AllDigits(SubSeq(s, 2, Len(s)))
         THEN [ok |-> TRUE, val |-> DigitsVal(SubSeq(s, 2, Len(s)))]
    ELSE [ok |-> FALSE, val |-> 0]

EmptyEnv == [k \in {} |-> ""]

\* ------------------------------------------------------------- scenario
\* The runs a scenario document is built from (models.Run): an attack that streams
\* until it ends, a benign run whose DURATION_SECONDS does not parse, a
\* duration-bounded benign run (whose declared RUN_ID the engine overrides), a
\* run with an unconfigured placeholder, a run whose script is missing.  The first
\* declares a TOOL_ARGS its profile overrides, the second declares TOOL_ARGS and
\* OUT_DIR and has no profile, the third has a profile file with a template for
\* its tool_args.  Then a run whose script lacks the execute permission and a run
\* whose profile file is missing.
RunKinds ==
    { [id |-> "scan", run_type |-> "attack", script |-> "ok", profile |-> "ok",
       env |-> ("TARGET_IP" :> "10.0.0.5") @@ ("TOOL_ARGS" :> "-A")],
      [id |-> "bridge", run_type |-> "benign", script |-> "ok", profile |-> "none",
       env |-> ("DURATION_SECONDS" :> "soon") @@ ("TOOL_ARGS" :> "-v")
               @@ ("OUT_DIR" :> "/tmp/out")],
      [id |-> "swarm", run_type |-> "benign", script |-> "ok", profile |-> "template",
       env |-> ("DURATION_SECONDS" :> "2") @@ ("RUN_ID" :> "RUN_ID_PLACEHOLDER")],
      [id |-> "mitm", run_type |-> "attack", script |-> "ok", profile |-> "none",
       env |-> ("TARGET_IP" :> "TARGET_IP_PLACEHOLDER") @@ ("DURATION_SECONDS" :> "1")],
      [id |-> "gone", run_type |-> "benign", script |-> "missing", profile |-> "none",
       env |-> EmptyEnv],
      [id |-> "noexec", run_type |-> "attack", script |-> "not_executable",
       profile |-> "none", env |-> EmptyEnv],
      [id |-> "lost", run_type |-> "attack", script |-> "ok", profile |-> "missing",
       env |-> EmptyEnv] }

Scenarios == UNION { [1..n -> RunKinds] : n \in 1..MaxRuns }

VARIABLES
    doc,                \* the scenario file: "valid", "invalid" (schema), "missing"
    scenario,           \* Scenario.runs
    dry_run,            \* --dry-run
    markers_enabled,    \* MarkerSystem.enabled
    fine,               \* the environment is explored with overhead and child output
    pc,                 \* the engine's position
    i,                  \* run_scenario: index of the current run (enumerate from 1)
    now,                \* the clock, in ticks
    run,                \* execute_run's locals
    proc,               \* execute_run's proc: the child of the current run
    launches,           \* the runs a child was launched for (subprocess.Popen), in order
    alive,              \* the runs whose child process is running
    pipe,               \* lines the current child wrote that the engine has not read
    handler_installed,  \* signal.SIGINT is bound to handle_sigint
    user_sigints,       \* SIGINTs the user has sent to the engine
    markers,            \* the sends of the enabled marker system (sendto and its outcome)
    results,            \* run_scenario: results
    run_metadata,       \* runs/<run_id>/run_metadata.json, by run id
    scenario_metadata,  \* .iottrafficgen/scenario_metadata_*.json files written
    exit_status,        \* the invocation's exit status, -1 while it runs
    error_kind,         \* the error that ended the invocation, "" if none
    call,               \* a call of a pure helper: function, argument, result
    disk,               \* the scenario files and temporary files, by path
    cli,                \* the `run` command: its argument, position and exit
    menu,               \* interactive_mode's locals
    tree,               \* the scenarios/ tree the backfill utility works on
    backfill,           \* the backfill utility: its position, pass and counts
    bridge,             \* the MQTT-to-SQL bridge: counters, messages, writer threads
    beacon,             \* the DNS beacon: shared counters and worker processes
    swarm,              \* a device of the swarm: its physics and its cycle
    injector            \* the MQTT false-data injector: its loop and counters

\* the state of an invocation of run_scenario
engine == <<doc, scenario, dry_run, markers_enabled, fine, pc, i, now, run, proc, launches,
            alive, pipe, handler_installed, user_sigints, markers, results, run_metadata,
            scenario_metadata, exit_status, error_kind>>

\* the state of the other programs, which an invocation of run_scenario leaves alone
outside == <<call, disk, cli, menu, tree, backfill, bridge, beacon, swarm, injector>>

\* the state of the `run` command and its interactive menu
command == <<disk, cli, menu>>

\* the state of the backfill utility
utility == <<tree, backfill>>

\* the state of the traffic scripts
scripts == <<bridge, beacon, swarm, injector>>

\* the state of the framework: engine, helpers, command and utility
framework == <<engine, call, command, utility>>

vars == <<engine, outside>>

inputs == <<doc, scenario, dry_run, markers_enabled, fine>>

NoRun ==
    [run_id_unique |-> "", env |-> EmptyEnv, launched |-> FALSE,
     start_time |-> 0, end_time |-> 0, has_duration |-> FALSE, duration_secs |-> 0,
     start |-> 0, user_interrupted |-> FALSE, output_lines |-> <<>>,
     returncode |-> 0, stdout |-> ""]

NoProc ==
    [state |-> "none", rc |-> 0, sigints |-> 0,
     t_expiry_sigint |-> -1, t_kill |-> -1, expiry_after_user |-> FALSE,
     env |-> EmptyEnv]

\* no helper is being called
NoCall == [fn |-> "", done |-> FALSE]

PureIdle == call = NoCall

\* the `run` command is not running
CommandIdle ==
    /\ disk = [p \in {} |-> 0]
    /\ cli = [pc |-> "idle"]
    /\ menu = [pc |-> "idle"]

\* the backfill utility is not running
UtilityIdle ==
    /\ tree = [p \in {} |-> 0]
    /\ backfill = [pc |-> "idle"]

\* the traffic scripts are not running
BridgeIdle == bridge = [pc |-> "idle"]

BeaconIdle == beacon = [pc |-> "idle"]

SwarmIdle == swarm = [pc |-> "idle"]

InjectorIdle == injector = [pc |-> "idle"]

ScriptsIdle == BridgeIdle /\ BeaconIdle /\ SwarmIdle /\ InjectorIdle

\* the framework is not running
FrameworkIdle == PureIdle /\ CommandIdle /\ UtilityIdle

Init ==
    /\ PureIdle
    /\ CommandIdle
    /\ UtilityIdle
    /\ ScriptsIdle
    /\ doc \in {"valid", "invalid", "missing"}
    /\ scenario \in Scenarios
    /\ doc # "valid" => scenario = [k \in 1..1 |-> CHOOSE r \in RunKinds : r.id = "scan"]
    /\ dry_run \in BOOLEAN
    /\ markers_enabled \in BOOLEAN
    /\ fine \in BOOLEAN
    /\ fine => Len(scenario) = 1
    /\ pc = "load"
    /\ i = 0
    /\ now = 0
    /\ run = NoRun
    /\ proc = NoProc
    /\ launches = <<>>
    /\ alive = {}
    /\ pipe = <<>>
    /\ handler_installed = FALSE
    /\ user_sigints = 0
    /\ markers = <<>>
    /\ results = <<>>
    /\ run_metadata = [k \in {} |-> 0]
    /\ scenario_metadata = <<>>
    /\ exit_status = -1
    /\ error_kind = ""

\* ------------------------------------------------------------- helpers
\* errors.detect_placeholders: KEY=VALUE for every string value containing the marker
detect_placeholders(env) ==
    { k \o "=" \o env[k] : k \in { x \in DOMAIN env : Contains(env[x], PlaceholderMarker) } }

\* datetime.utcnow().strftime("%Y%m%d_%H%M%S"): the clock to the second
Timestamp(t) == ToString(t \div TicksPerSec)

\* int(time.time())
TsUnix(t) == t \div TicksPerSec

start_event(r) == IF r.run_type = "benign" THEN "BENIGN_START" ELSE "ATTACK_START"

\* mutant: the end event of the attack family for every run type
end_event_AlwaysAttack(r) == "ATTACK_END"

end_event(r) == IF r.run_type = "benign" THEN "BENIGN_END" ELSE "ATTACK_END"

\* the state of the child of run k, "none" if none was launched
ChildState(k) ==
    IF k \in alive THEN "alive"
    ELSE IF \E p \in 1..Len(launches) : launches[p] = k THEN "exited"
    ELSE "none"

\* what sock.sendto does: the datagram is sent, the socket times out, or another
\* socket error (no route, unresolved host) is raised
SendOutcomes == IF fine /\ markers_enabled THEN {"sent", "timeout", "error"} ELSE {"sent"}

\* mutant: only the timeout is caught
send_raises_TimeoutOnly(outcome) == IF outcome = "error" THEN "MarkerError" ELSE ""

\* MarkerSystem.send: what it raises to its caller, "" if it returns; `except
\* socket.timeout` and `except Exception` catch both failures
send_raises(outcome) == IF outcome \in {"sent", "timeout", "error"} THEN "" ELSE outcome

\* MarkerSystem.send: a no-op when disabled, else one datagram handed to sendto
send(event, attack_id, metadata, outcome) ==
    IF ~markers_enabled THEN markers
    ELSE Append(markers, [type |-> "GROUND_TRUTH", event |-> event,
                          attack_id |-> attack_id, ts_unix |-> TsUnix(now),
                          run |-> i, child |-> ChildState(i),
                          metadata |-> metadata, outcome |-> outcome])

\* mutant: the return code is normalized for every run
NormalizeReturncode_EveryRun(has_duration, user_interrupted, rc) ==
    IF rc < 0 \/ rc \in {130, 143} THEN 0 ELSE rc

\* mutant: only a negative return code counts as an interrupted exit
NormalizeReturncode_NegativeOnly(has_duration, user_interrupted, rc) ==
    IF has_duration \/ user_interrupted
    THEN IF rc < 0 THEN 0 ELSE rc
    ELSE rc

\* the exit-code normalization of execute_run
NormalizeReturncode(has_duration, user_interrupted, rc) ==
    IF has_duration \/ user_interrupted
    THEN IF rc < 0 \/ rc \in {130, 143} THEN 0 ELSE rc
    ELSE rc

RECURSIVE Join(_)
Join(lines) == IF Len(lines) = 0 THEN "" ELSE Head(lines) \o Join(Tail(lines))


\* the invocation ends with an error
Fail(kind) ==
    /\ pc' = "exited"
    /\ exit_status' = 1
    /\ error_kind' = kind

\* ------------------------------------------------------- run_scenario
\* run_scenario: load_yaml_file, validate_scenario_schema, Scenario.from_yaml,
\* create_marker_system_from_scenario
LoadScenario ==
    /\ pc = "load"
    /\ IF doc = "missing" THEN Fail("FileNotFoundError")
       ELSE IF doc = "invalid" THEN Fail("ValueError")
       ELSE /\ pc' = "loop"
            /\ UNCHANGED <<exit_status, error_kind>>
    /\ UNCHANGED <<inputs, outside, i, now, run, proc, launches, alive, pipe, handler_installed, user_sigints,
                   markers, results, run_metadata, scenario_metadata>>

\* run_scenario: the head of `for i, run in enumerate(scenario.runs, 1)`
NextRun ==
    /\ pc = "loop"
    /\ i < Len(scenario)
    /\ i' = i + 1
    /\ run' = NoRun
    /\ proc' = NoProc
    /\ pc' = "prepare"
    /\ UNCHANGED <<inputs, outside, now, launches, alive, pipe, handler_installed, user_sigints, markers,
                   results, run_metadata, scenario_metadata, exit_status, error_kind>>

\* save_scenario_metadata: one compact record per result, in the order of results
ScenarioRecord(rs) ==
    [runs |-> [k \in 1..Len(rs) |->
                 [id |-> rs[k].run_id, returncode |-> rs[k].returncode,
                  start_time |-> rs[k].start_time, end_time |-> rs[k].end_time]]]

\* mutant: the record is built and not written
save_scenario_metadata_NoWrite(files, rs) == files

\* save_scenario_metadata: the files of .iottrafficgen once the record is written
save_scenario_metadata(files, rs) == Append(files, ScenarioRecord(rs))

\* run_scenario after the loop: `if not dry_run: save_scenario_metadata(...)`, and
\* the invocation ends with success
FinishScenario ==
    /\ pc = "loop"
    /\ i = Len(scenario)
    /\ scenario_metadata' = IF ~dry_run
                            THEN save_scenario_metadata(scenario_metadata, results)
                            ELSE scenario_metadata
    /\ pc' = "exited"
    /\ exit_status' = 0
    /\ UNCHANGED <<inputs, outside, i, now, run, proc, launches, alive, pipe, handler_installed,
                   user_sigints, markers, results, run_metadata, error_kind>>

\* -------------------------------------------------------- execute_run
\* str(outputs_dir): workspace / "runs" / run_id_unique / "outputs"
OutputsDir(id) == "runs/" \o id \o "/outputs"

\* mutant: a declared RUN_ID or OUT_DIR is kept
AssembleEnv_DeclaredWins(r, id) ==
    r.env @@ ("RUN_ID" :> id) @@ ("OUT_DIR" :> OutputsDir(id))

\* the environment of the run: run.env with RUN_ID and OUT_DIR injected
AssembleEnv(r, id) ==
    ("RUN_ID" :> id) @@ ("OUT_DIR" :> OutputsDir(id)) @@ r.env

\* Profile.tool_args of the profile the runs reference
ProfileToolArgs == "-sS -T4"

\* Profile.tool_args of a profile file written as a template
TemplateToolArgs == "-p PORTS_PLACEHOLDER"

\* load_profile(run.profile).tool_args
tool_args(profile) == IF profile = "template" THEN TemplateToolArgs ELSE ProfileToolArgs

\* mutant: TOOL_ARGS is injected only if the profile's tool_args is configured
WithProfile_ConfiguredOnly(r, env) ==
    IF r.profile \in {"ok", "template"}
          /\ ~Contains(tool_args(r.profile), PlaceholderMarker)
    THEN ("TOOL_ARGS" :> tool_args(r.profile)) @@ env ELSE env

\* `if run.profile: env["TOOL_ARGS"] = profile.tool_args`
WithProfile(r, env) ==
    IF r.profile \in {"ok", "template"}
    THEN ("TOOL_ARGS" :> tool_args(r.profile)) @@ env ELSE env

\* os.environ of the engine
HostEnv ==
    ("PATH" :> "/usr/bin") @@ ("RUN_ID" :> "host") @@ ("TARGET_IP" :> "192.168.1.1")
      @@ ("TOOL_ARGS" :> "--host")

\* the child's environment: {**os.environ, **env}
ChildEnv(env) == env @@ HostEnv

\* mutant: the placeholder scan is left out
PreflightError_NoPlaceholderScan(r, env) ==
    IF r.script = "missing" THEN "ScriptNotFound"
    ELSE IF r.script = "not_executable" THEN "ScriptNotExecutable"
    ELSE IF r.profile = "missing" THEN "ProfileNotFound"
    ELSE ""

\* mutant: the profile is not looked for before the start marker
PreflightError_NoProfileCheck(r, env) ==
    IF detect_placeholders(env) # {} THEN "PlaceholderNotConfigured"
    ELSE IF r.script = "missing" THEN "ScriptNotFound"
    ELSE IF r.script = "not_executable" THEN "ScriptNotExecutable"
    ELSE ""

\* what stops the run before its start marker, "" if nothing does:
\* detect_placeholders, validate_script_executable, load_profile, in this order
PreflightError(r, env) ==
    IF detect_placeholders(env) # {} THEN "PlaceholderNotConfigured"
    ELSE IF r.script = "missing" THEN "ScriptNotFound"
    ELSE IF r.script = "not_executable" THEN "ScriptNotExecutable"
    ELSE IF r.profile = "missing" THEN "ProfileNotFound"
    ELSE ""

\* execute_run up to the start marker: run id, environment, the checks above,
\* TOOL_ARGS from the profile
PrepareRun ==
    /\ pc = "prepare"
    /\ LET r   == scenario[i]
           id  == r.id \o "_" \o Timestamp(now)
           env == AssembleEnv(r, id)
           err == PreflightError(r, env)
       IN  IF err # "" THEN
                /\ Fail(err)
                /\ run' = [run EXCEPT !.run_id_unique = id, !.env = env]
           ELSE /\ run' = [run EXCEPT !.run_id_unique = id, !.env = WithProfile(r, env)]
                /\ pc' = "start_marker"
                /\ UNCHANGED <<exit_status, error_kind>>
    /\ UNCHANGED <<inputs, outside, i, now, proc, launches, alive, pipe, handler_installed,
                   user_sigints, markers, results, run_metadata, scenario_metadata>>

\* the start marker, then start_time
SendStartMarker ==
    /\ pc = "start_marker"
    /\ \E outcome \in SendOutcomes :
         /\ markers' = send(start_event(scenario[i]), run.run_id_unique,
                            [run_type |-> scenario[i].run_type, returncode |-> 0], outcome)
         /\ IF markers_enabled /\ send_raises(outcome) # ""
            THEN /\ Fail(send_raises(outcome))
                 /\ UNCHANGED run
            ELSE /\ run' = [run EXCEPT !.start_time = now]
                 /\ pc' = "execute"
                 /\ UNCHANGED <<exit_status, error_kind>>
    /\ UNCHANGED <<inputs, outside, i, now, proc, launches, alive, pipe, handler_installed,
                   user_sigints, results, run_metadata, scenario_metadata>>

\* mutant: a dry run leaves stdout empty
DryRunResult_NoStdout == [returncode |-> 0, stdout |-> ""]

\* the result a dry run synthesizes
DryRunResult == [returncode |-> 0, stdout |-> DryRunStdout]

\* if dry_run: no child, returncode 0 and the literal stdout
DryRunSkip ==
    /\ pc = "execute"
    /\ dry_run
    /\ run' = [run EXCEPT !.returncode = DryRunResult.returncode,
                          !.stdout = DryRunResult.stdout]
    /\ pc' = "end_marker"
    /\ UNCHANGED <<inputs, outside, i, now, proc, launches, alive, pipe, handler_installed, user_sigints,
                   markers, results, run_metadata, scenario_metadata, exit_status,
                   error_kind>>

\* else: DURATION_SECONDS is parsed and the child is launched
Popen ==
    /\ pc = "execute"
    /\ ~dry_run
    /\ LET has == "DURATION_SECONDS" \in DOMAIN run.env
                  /\ run.env["DURATION_SECONDS"] # ""
                  /\ ParseInt(run.env["DURATION_SECONDS"]).ok
           secs == IF has THEN ParseInt(run.env["DURATION_SECONDS"]).val ELSE 0
       IN  run' = [run EXCEPT !.has_duration = has, !.duration_secs = secs,
                              !.launched = TRUE, !.returncode = 0,
                              !.user_interrupted = FALSE, !.output_lines = <<>>]
    /\ proc' = [NoProc EXCEPT !.state = "alive", !.env = ChildEnv(run.env)]
    /\ launches' = Append(launches, i)
    /\ alive' = alive \cup {i}
    /\ pipe' = <<>>
    /\ pc' = "install_handler"
    /\ UNCHANGED <<inputs, outside, i, now, handler_installed, user_sigints, markers, results,
                   run_metadata, scenario_metadata, exit_status, error_kind>>

\* subprocess.Popen raises (bash or python3 not found on PATH, fork fails): the
\* call is outside every try statement of execute_run, and run_scenario logs the
\* exception and raises it again
PopenFails ==
    /\ pc = "execute"
    /\ ~dry_run
    /\ fine
    /\ Fail("OSError")
    /\ UNCHANGED <<inputs, outside, i, now, run, proc, launches, alive, pipe, handler_installed,
                   user_sigints, markers, results, run_metadata, scenario_metadata>>

\* signal.signal(signal.SIGINT, handle_sigint); start = time.time() on the duration path
InstallHandler ==
    /\ pc = "install_handler"
    /\ handler_installed' = TRUE
    /\ run' = [run EXCEPT !.start = now]
    /\ pc' = IF run.has_duration THEN "duration_loop" ELSE "stream_check"
    /\ UNCHANGED <<inputs, outside, i, now, proc, launches, alive, pipe, user_sigints, markers, results,
                   run_metadata, scenario_metadata, exit_status, error_kind>>

\* what a step takes beyond its nominal time
Overheads == IF fine THEN 0..MaxOverhead ELSE {0}

\* mutant: the elapsed time is rounded up
Elapsed_RoundUp == (now - run.start + TicksPerSec - 1) \div TicksPerSec

\* elapsed = int(time.time() - start)
Elapsed == (now - run.start) \div TicksPerSec

\* one iteration of the progress loop: leave it when the duration has elapsed, the
\* child has exited or the user interrupted; else sleep a second and drain the output
DurationLoop ==
    /\ pc = "duration_loop"
    /\ IF Elapsed >= run.duration_secs \/ proc.state # "alive" \/ run.user_interrupted
       THEN /\ pc' = "expiry_check"
            /\ UNCHANGED <<now, run, pipe>>
       ELSE /\ \E ov \in Overheads : now' = now + TicksPerSec + ov
            /\ run' = [run EXCEPT !.output_lines = @ \o pipe]
            /\ pipe' = <<>>
            /\ pc' = "duration_loop"
    /\ UNCHANGED <<inputs, outside, i, proc, launches, alive, handler_installed, user_sigints, markers, results,
                   run_metadata, scenario_metadata, exit_status, error_kind>>

\* `if not user_interrupted and proc.poll() is None`: the flag is read
ExpiryCheck ==
    /\ pc = "expiry_check"
    /\ pc' = IF ~run.user_interrupted THEN "expiry_send" ELSE "final_wait"
    /\ UNCHANGED <<inputs, outside, i, now, run, proc, launches, alive, pipe, handler_installed, user_sigints,
                   markers, results, run_metadata, scenario_metadata, exit_status,
                   error_kind>>

\* proc.poll() is None: proc.send_signal(signal.SIGINT)
ExpirySend ==
    /\ pc = "expiry_send"
    /\ IF proc.state = "alive"
       THEN /\ proc' = [proc EXCEPT !.sigints = @ + 1, !.t_expiry_sigint = now,
                                    !.expiry_after_user = run.user_interrupted]
            /\ pc' = "expiry_wait"
       ELSE /\ pc' = "final_wait"
            /\ UNCHANGED proc
    /\ UNCHANGED <<inputs, outside, i, now, run, launches, alive, pipe, handler_installed, user_sigints, markers,
                   results, run_metadata, scenario_metadata, exit_status, error_kind>>

\* mutant: TimeoutExpired is swallowed and the child is left running
WaitOrKill_NoKill(p, timeout) == p

\* proc.wait(timeout), then proc.kill() and proc.wait() on TimeoutExpired: the
\* child as it is when the wait is over
WaitOrKill(p, timeout) ==
    IF p.state = "alive"
    THEN [p EXCEPT !.state = "exited", !.rc = -9, !.t_kill = now + timeout * TicksPerSec]
    ELSE p

\* the time the wait takes: nothing if the child has exited, else the whole timeout
WaitTime(p, timeout) == IF p.state = "alive" THEN timeout * TicksPerSec ELSE 0

\* proc.wait(timeout=10) after the duration-expiry interrupt
ExpiryWait ==
    /\ pc = "expiry_wait"
    /\ proc' = WaitOrKill(proc, GraceSeconds)
    /\ alive' = IF WaitOrKill(proc, GraceSeconds).state = "alive" THEN alive
                ELSE alive \ {i}
    /\ now' = now + WaitTime(proc, GraceSeconds)
    /\ pc' = "final_wait"
    /\ UNCHANGED <<inputs, outside, i, run, launches, pipe, handler_installed, user_sigints,
                   markers, results, run_metadata, scenario_metadata, exit_status,
                   error_kind>>

\* `while proc.poll() is None: if user_interrupted: break`
StreamCheck ==
    /\ pc = "stream_check"
    /\ pc' = IF proc.state = "alive" /\ ~run.user_interrupted
             THEN "stream_readline" ELSE "final_wait"
    /\ UNCHANGED <<inputs, outside, i, now, run, proc, launches, alive, pipe, handler_installed, user_sigints,
                   markers, results, run_metadata, scenario_metadata, exit_status,
                   error_kind>>

\* line = proc.stdout.readline(): blocks until the child writes a line or its
\* stdout is at end of file
StreamReadline ==
    /\ pc = "stream_readline"
    /\ \/ /\ pipe # <<>>
          /\ run' = [run EXCEPT !.output_lines = Append(@, Head(pipe))]
          /\ pipe' = Tail(pipe)
       \/ /\ pipe = <<>>
          /\ proc.state # "alive"
          /\ UNCHANGED <<run, pipe>>
    /\ pc' = "stream_check"
    /\ UNCHANGED <<inputs, outside, i, now, proc, launches, alive, handler_installed, user_sigints, markers, results,
                   run_metadata, scenario_metadata, exit_status, error_kind>>

\* `if proc.poll() is None: proc.wait(timeout=10)`, kill on TimeoutExpired
FinalWait ==
    /\ pc = "final_wait"
    /\ proc' = WaitOrKill(proc, GraceSeconds)
    /\ alive' = IF WaitOrKill(proc, GraceSeconds).state = "alive" THEN alive
                ELSE alive \ {i}
    /\ now' = now + WaitTime(proc, GraceSeconds)
    /\ pc' = "read_remaining"
    /\ UNCHANGED <<inputs, outside, i, run, launches, pipe, handler_installed, user_sigints,
                   markers, results, run_metadata, scenario_metadata, exit_status,
                   error_kind>>

\* mutant: the finally clause leaves the handler in place
finally_restore_Kept(installed) == installed

\* finally: signal.signal(signal.SIGINT, old_handler): whether handle_sigint is
\* still the installed handler
finally_restore(installed) == FALSE

\* reading the child's output raises an exception the try statements around the
\* reads do not name (text=True decodes what the child wrote): the finally
\* clause runs, and run_scenario logs the exception and raises it again
OutputError ==
    /\ pc \in {"duration_loop", "stream_readline", "read_remaining"}
    /\ fine
    /\ pipe # <<>>
    /\ handler_installed' = finally_restore(handler_installed)
    /\ Fail("UnicodeDecodeError")
    /\ UNCHANGED <<inputs, outside, i, now, run, proc, launches, alive, pipe, user_sigints,
                   markers, results, run_metadata, scenario_metadata>>

\* remaining = proc.stdout.read(); finally: the old SIGINT handler is restored;
\* then stdout is joined and the return code normalized
ReadRemaining ==
    /\ pc = "read_remaining"
    /\ run' = [run EXCEPT !.output_lines = @ \o pipe,
                          !.stdout = Join(run.output_lines \o pipe),
                          !.returncode = NormalizeReturncode(run.has_duration,
                                                             run.user_interrupted, proc.rc)]
    /\ pipe' = <<>>
    /\ handler_installed' = finally_restore(handler_installed)
    /\ pc' = "end_marker"
    /\ UNCHANGED <<inputs, outside, i, now, proc, launches, alive, user_sigints, markers,
                   results, run_metadata, scenario_metadata, exit_status, error_kind>>

\* end_time, then the end marker with the return code
SendEndMarker ==
    /\ pc = "end_marker"
    /\ run' = [run EXCEPT !.end_time = now]
    /\ \E outcome \in SendOutcomes :
         /\ markers' = send(end_event(scenario[i]), run.run_id_unique,
                            [run_type |-> scenario[i].run_type,
                             returncode |-> run.returncode], outcome)
         /\ IF markers_enabled /\ send_raises(outcome) # ""
            THEN Fail(send_raises(outcome))
            ELSE /\ pc' = "save_run"
                 /\ UNCHANGED <<exit_status, error_kind>>
    /\ UNCHANGED <<inputs, outside, i, now, proc, launches, alive, pipe, handler_installed,
                   user_sigints, results, run_metadata, scenario_metadata>>

\* the RunResult execute_run returns
RunResult ==
    [run_id |-> run.run_id_unique, index |-> i, returncode |-> run.returncode,
     stdout |-> run.stdout, start_time |-> run.start_time, end_time |-> run.end_time]

\* mutant: the result is put in front
AppendResult_Prepend(rs, r) == <<r>> \o rs

\* run_scenario: results.append(result)
AppendResult(rs, r) == Append(rs, r)

\* mutant: a failed run ends the loop
AfterRun_StopOnFailure(returncode) == IF returncode = 0 THEN "loop" ELSE "exited"

\* run_scenario after a run: [OK] or [FAILED] is reported and the loop goes on
AfterRun(returncode) == "loop"

\* save_run_metadata writes run_metadata.json, execute_run returns and run_scenario
\* appends the result; a non-zero return code is reported and the loop goes on
SaveRunMetadata ==
    /\ pc = "save_run"
    /\ run_metadata' = (run.run_id_unique :>
                          [run_id |-> run.run_id_unique, run_id_base |-> scenario[i].id,
                           returncode |-> run.returncode, stdout |-> run.stdout])
                       @@ run_metadata
    /\ results' = AppendResult(results, RunResult)
    /\ pc' = AfterRun(run.returncode)
    /\ UNCHANGED <<inputs, outside, i, now, run, proc, launches, alive, pipe, handler_installed, user_sigints,
                   markers, scenario_metadata, exit_status, error_kind>>

\* -------------------------------------------------------- environment
\* the child writes a line to its stdout
ChildWrite ==
    /\ pc # "exited"
    /\ proc.state = "alive"
    /\ fine
    /\ Len(run.output_lines) + Len(pipe) < MaxLines
    /\ pipe' = Append(pipe, "out\n")
    /\ UNCHANGED <<inputs, outside, pc, i, now, run, proc, launches, alive, handler_installed, user_sigints, markers,
                   results, run_metadata, scenario_metadata, exit_status, error_kind>>

\* the exit statuses a child ends with: its own (-11: killed by SIGSEGV), or death
\* by SIGINT once it got one; the scenarios of several runs take three of them
ExitCodes(p) ==
    (IF fine THEN {0, 1, 130, 143, -11} ELSE {0, 1, 130})
      \cup (IF p.sigints > 0 THEN {-2} ELSE {})

\* the child exits
ChildExit ==
    /\ pc # "exited"
    /\ proc.state = "alive"
    /\ \E rc \in ExitCodes(proc) : proc' = [proc EXCEPT !.state = "exited", !.rc = rc]
    /\ alive' = alive \ {i}
    /\ UNCHANGED <<inputs, outside, pc, i, now, run, launches, pipe, handler_installed, user_sigints,
                   markers, results, run_metadata, scenario_metadata, exit_status,
                   error_kind>>

\* the user sends SIGINT to the engine while a child runs: handle_sigint sets the
\* flag and forwards the signal; with the default handler KeyboardInterrupt ends
\* the invocation
UserSigint ==
    /\ pc # "exited"
    /\ proc.state = "alive"
    /\ user_sigints < MaxUserSigints
    /\ user_sigints' = user_sigints + 1
    /\ IF handler_installed
       THEN /\ run' = [run EXCEPT !.user_interrupted = TRUE]
            /\ proc' = [proc EXCEPT !.sigints = @ + 1]
            /\ UNCHANGED <<pc, exit_status, error_kind>>
       ELSE /\ Fail("KeyboardInterrupt")
            /\ UNCHANGED <<run, proc>>
    /\ UNCHANGED <<inputs, outside, i, now, launches, alive, pipe, handler_installed, markers, results,
                   run_metadata, scenario_metadata>>

Next ==
    \/ LoadScenario
    \/ NextRun
    \/ FinishScenario
    \/ PrepareRun
    \/ SendStartMarker
    \/ DryRunSkip
    \/ Popen
    \/ PopenFails
    \/ InstallHandler
    \/ DurationLoop
    \/ ExpiryCheck
    \/ ExpirySend
    \/ ExpiryWait
    \/ StreamCheck
    \/ StreamReadline
    \/ FinalWait
    \/ ReadRemaining
    \/ OutputError
    \/ SendEndMarker
    \/ SaveRunMetadata
    \/ ChildWrite
    \/ ChildExit
    \/ UserSigint

Spec == Init /\ [][Next]_vars

\* no invocation of run_scenario is under way
EngineIdle ==
    /\ doc = "valid"
    /\ scenario = [k \in 1..1 |-> CHOOSE r \in RunKinds : r.id = "scan"]
    /\ dry_run = FALSE
    /\ markers_enabled = FALSE
    /\ fine = FALSE
    /\ pc = "idle"
    /\ i = 0
    /\ now = 0
    /\ run = NoRun
    /\ proc = NoProc
    /\ launches = <<>>
    /\ alive = {}
    /\ pipe = <<>>
    /\ handler_installed = FALSE
    /\ user_sigints = 0
    /\ markers = <<>>
    /\ results = <<>>
    /\ run_metadata = [k \in {} |-> 0]
    /\ scenario_metadata = <<>>
    /\ exit_status = -1
    /\ error_kind = ""

\* ------------------------------------------ validate_scenario_schema (utils.py)
\* What yaml.safe_load hands to validate_scenario_schema.  A value is a mapping
\* (its keys), a string, a list or null; a key a mapping does not have is "absent".
YMap(ks) == [kind |-> "map", keys |-> ks, str |-> ""]

YStr(t) == [kind |-> "str", keys |-> {}, str |-> t]

YNull == [kind |-> "null", keys |-> {}, str |-> ""]

YAbsent == [kind |-> "absent", keys |-> {}, str |-> ""]

YList(xs) == [kind |-> "list", keys |-> {}, str |-> "", items |-> xs]

YOther(v) == [kind |-> v.kind, keys |-> v.keys, str |-> v.str, items |-> <<>>]

\* the entries of `runs`: mappings with some of the required keys, strings, null
RunEntries ==
    { YMap(ks) : ks \in SUBSET {"id", "script", "type"} }
      \cup { YStr("script type id"), YStr("nmap"), YNull }

\* the values of `scenario`
ScenarioValues ==
    { YAbsent, YNull, YMap({}), YMap({"name"}), YMap({"name", "description"}),
      YMap({"description"}), YStr("unnamed"), YStr("lab") }

\* the values of `runs`
RunsValues ==
    { YList(xs) : xs \in UNION { [1..n -> RunEntries] : n \in 0..MaxRuns } }
      \cup { YOther(YAbsent), YOther(YNull), YOther(YStr("runs")), YOther(YMap({"id"})) }

\* the documents: a mapping with or without `scenario` and `runs`, or an empty file
Documents ==
    { [kind |-> "map", scenario |-> sc, runs |-> rs] :
        sc \in ScenarioValues, rs \in RunsValues }
      \cup { [kind |-> "null", scenario |-> YAbsent, runs |-> YOther(YAbsent)] }

\* Python's `key in v` is defined for a mapping, a string and a list
Iterable(v) == v.kind \in {"map", "str", "list"}

\* Python's `key in v`: a key of the mapping, a substring of the string
PyIn(key, v) ==
    IF v.kind = "map" THEN key \in v.keys
    ELSE IF v.kind = "str" THEN Contains(v.str, key)
    ELSE FALSE

Passed == [raised |-> "", message |-> ""]

Raised(kind, message) == [raised |-> kind, message |-> message]

\* `argument of type 'NoneType' is not iterable`
NotIterable == Raised("TypeError", "argument of type 'NoneType' is not iterable")

\* the check of one entry of runs, k counted from 0
RunEntryCheck(entry, k) ==
    IF ~Iterable(entry) THEN NotIterable
    ELSE IF ~PyIn("id", entry)
         THEN Raised("ValueError", "Run " \o ToString(k) \o " missing required 'id' field")
    ELSE IF ~PyIn("script", entry)
         THEN Raised("ValueError", "Run " \o ToString(k) \o " missing required 'script' field")
    ELSE IF ~PyIn("type", entry)
         THEN Raised("ValueError", "Run " \o ToString(k) \o " missing required 'type' field")
    ELSE Passed

\* `for i, run in enumerate(runs)`: the first entry that raises decides
RECURSIVE RunEntriesCheck(_, _)
RunEntriesCheck(entries, k) ==
    IF k >= Len(entries) THEN Passed
    ELSE IF RunEntryCheck(entries[k + 1], k) # Passed THEN RunEntryCheck(entries[k + 1], k)
    ELSE RunEntriesCheck(entries, k + 1)

\* validate_scenario_schema: what it raises, Passed if it returns
validate_scenario_schema(data) ==
    IF data.kind = "null" THEN NotIterable
    ELSE IF data.scenario.kind = "absent"
         THEN Raised("ValueError", "Missing required key 'scenario'")
    ELSE IF ~Iterable(data.scenario) THEN NotIterable
    ELSE IF ~PyIn("name", data.scenario)
         THEN Raised("ValueError", "Scenario must have 'name' field")
    ELSE IF data.runs.kind = "absent"
         THEN Raised("ValueError", "Missing required key 'runs'")
    ELSE IF data.runs.kind # "list"
         THEN Raised("ValueError", "'runs' must be a list")
    ELSE IF Len(data.runs.items) = 0
         THEN Raised("ValueError", "Scenario must have at least one run")
    ELSE RunEntriesCheck(data.runs.items, 0)

\* a call of validate_scenario_schema on a document
ValidateCalls ==
    { [fn |-> "validate_scenario_schema", done |-> FALSE, arg |-> d, result |-> Passed] :
        d \in Documents }

\* ------------------------------------------------ detect_placeholders (errors.py)
\* what may stand before and after the marker in an unconfigured value
Affixes == {"", "TARGET_IP", "a_b", "_"}

\* values with the marker somewhere in them
Unconfigured == { pre \o "_PLACEHOLDER" \o suf : pre \in Affixes, suf \in Affixes }

\* values without it: empty, other underscores, near misses of the marker
Configured ==
    {"", "my_host_1", "PLACEHOLDER", "_PLACEHOLDE", "_placeholder", "_PLACE_HOLDER",
     "_PLACEHOLDE_R"}

EnvKeys == {"TARGET_IP", "MQTT_USER"}

\* the environment mappings: some of the keys, each with one of the values
Environments ==
    UNION { [ks -> Unconfigured \cup Configured] : ks \in SUBSET EnvKeys }

\* a call of detect_placeholders on an environment mapping
DetectCalls ==
    { [fn |-> "detect_placeholders", done |-> FALSE, arg |-> e, result |-> {}] :
        e \in Environments }

InitPure ==
    /\ EngineIdle
    /\ ScriptsIdle
    /\ CommandIdle
    /\ UtilityIdle
    /\ \/ call \in ValidateCalls
       \/ call \in DetectCalls

\* the call of validate_scenario_schema runs
Validate ==
    /\ call.fn = "validate_scenario_schema"
    /\ ~call.done
    /\ call' = [call EXCEPT !.done = TRUE, !.result = validate_scenario_schema(call.arg)]
    /\ UNCHANGED <<engine, scripts, command, utility>>

\* the call of detect_placeholders runs
Detect ==
    /\ call.fn = "detect_placeholders"
    /\ ~call.done
    /\ call' = [call EXCEPT !.done = TRUE, !.result = detect_placeholders(call.arg)]
    /\ UNCHANGED <<engine, scripts, command, utility>>

NextPure ==
    \/ Validate
    \/ Detect

SpecPure == InitPure /\ [][NextPure]_vars

\* -------------------------------- the `run` command and its menu (cli.py, interactive.py)
\* str.replace(sub, ''): every occurrence removed, left to right
RECURSIVE RemoveAll(_, _)
RemoveAll(s, sub) ==
    IF Len(s) < Len(sub) THEN s
    ELSE IF SubSeq(s, 1, Len(sub)) = sub
         THEN RemoveAll(SubSeq(s, Len(sub) + 1, Len(s)), sub)
    ELSE SubSeq(s, 1, 1) \o RemoveAll(SubSeq(s, 2, Len(s)), sub)

\* str.strip() for blanks
RECURSIVE Strip(_)
Strip(s) ==
    IF Len(s) > 0 /\ SubSeq(s, 1, 1) = " " THEN Strip(SubSeq(s, 2, Len(s)))
    ELSE IF Len(s) > 0 /\ SubSeq(s, Len(s), Len(s)) = " "
         THEN Strip(SubSeq(s, 1, Len(s) - 1))
    ELSE s

\* the default the menu shows for a value: the value without the marker, stripped;
\* a value without the marker is its own default
DefaultOf(value) ==
    IF Contains(value, "_PLACEHOLDER") THEN Strip(RemoveAll(value, "_PLACEHOLDER"))
    ELSE value

\* What a scenario file is to the menu: a document with one run and that run's env
\* (no string values; a value with a default and one without; a value without the
\* marker), a file that does not parse, an empty file.
PlainDoc == [readable |-> TRUE, null |-> FALSE, env |-> EmptyEnv]

CfgDoc ==
    [readable |-> TRUE, null |-> FALSE,
     env |-> ("TARGET_IP" :> "10.0.0.5_PLACEHOLDER") @@ ("USER" :> " _PLACEHOLDER")]

FixedDoc == [readable |-> TRUE, null |-> FALSE, env |-> ("PORT" :> "80")]

UnreadableDoc == [readable |-> FALSE, null |-> FALSE, env |-> EmptyEnv]

EmptyDoc == [readable |-> TRUE, null |-> TRUE, env |-> EmptyEnv]

ScenarioDocs == {PlainDoc, CfgDoc, FixedDoc, UnreadableDoc, EmptyDoc}

\* sorted(env_vars.keys()) of the keys above
KeyOrder == <<"PORT", "TARGET_IP", "USER">>

\* the scenario files a workspace may hold
WorkspacePaths ==
    {"scenarios/nmap/01.yaml", "scenarios/nmap/02.yaml",
     "scenarios/benign/01_device_swarm.yaml"}

\* the SCENARIO argument when it names a file
ArgPath == "scenario.yaml"

\* sorted(category_path.glob("*.yaml")) for the category of a main-menu choice; the
\* categories 2 to 7 have no directory in these workspaces
CategoryPaths(choice) ==
    IF choice = 1 THEN <<"scenarios/nmap/01.yaml", "scenarios/nmap/02.yaml">> ELSE <<>>

\* show_benign_submenu: benign_components
BenignComponents ==
    (1 :> "scenarios/benign/01_device_swarm.yaml")
      @@ (2 :> "scenarios/benign/02_mqtt_bridge.yaml")
      @@ (3 :> "scenarios/benign/03_infrastructure.yaml")

\* scan_scenarios: the files of the category, in sorted order
scan_scenarios(choice) ==
    LET Exists(path) == path \in DOMAIN disk
    IN  SelectSeq(CategoryPaths(choice), Exists)

\* the main-menu choices get_input returns: a category with scenarios, one without
\* a directory, the benign submenu, exit (9 or -1)
MainChoices == {1, 2, 8, 9, -1}

\* tempfile.mkstemp(suffix='.yaml', prefix='iottrafficgen_'): a new name each time
TempPath(n) == "/tmp/iottrafficgen_" \o ToString(n) \o ".yaml"

NoMenu ==
    [pc |-> "main", category |-> 0, scenarios |-> <<>>, selected |-> "",
     keys |-> <<>>, user_values |-> EmptyEnv, configured |-> "", configs |-> 0,
     interrupted_at |-> "", interrupts |-> 0,
     write_failed |-> FALSE, declined |-> FALSE]

InitCommand ==
    /\ EngineIdle
    /\ ScriptsIdle
    /\ PureIdle
    /\ UtilityIdle
    /\ \E argument \in {"none", "file", "nofile"} :
         /\ cli = [pc |-> "click", argument |-> argument, scenario |-> "",
                   exit_code |-> -1, message |-> ""]
         /\ IF argument = "none"
            THEN \E present \in SUBSET WorkspacePaths : disk \in [present -> ScenarioDocs]
            ELSE IF argument = "file"
                 THEN disk \in [{ArgPath} -> ScenarioDocs]
            ELSE disk = [p \in {} |-> PlainDoc]
    /\ menu = NoMenu

\* the process ends
Exit(code, message) ==
    cli' = [cli EXCEPT !.pc = "exited", !.exit_code = code, !.message = message]

\* click.Path(exists=True): a SCENARIO that names no file is a usage error (exit 2)
\* before `run` is entered; without SCENARIO the menu opens
Click ==
    /\ cli.pc = "click"
    /\ IF cli.argument = "nofile" THEN Exit(2, "Error: Invalid value for SCENARIO")
       ELSE IF cli.argument = "file"
            THEN cli' = [cli EXCEPT !.pc = "run_scenario", !.scenario = ArgPath]
       ELSE cli' = [cli EXCEPT !.pc = "menu"]
    /\ UNCHANGED <<disk, menu, engine, scripts, call, utility>>

\* interactive_mode returns None and `run` calls sys.exit(0)
MenuExits == Exit(0, "Exiting...")

\* the main menu: get_input("Select [1-9]:")
CategoryChoice ==
    /\ cli.pc = "menu"
    /\ menu.pc = "main"
    /\ \E choice \in MainChoices :
         IF choice \in {9, -1} THEN MenuExits /\ UNCHANGED menu
         ELSE IF choice = 8
              THEN menu' = [menu EXCEPT !.pc = "benign", !.category = 8] /\ UNCHANGED cli
         ELSE /\ menu' = [menu EXCEPT !.category = choice,
                                      !.scenarios = scan_scenarios(choice),
                                      !.pc = IF scan_scenarios(choice) = <<>>
                                             THEN "press_enter" ELSE "scenario_menu"]
              /\ UNCHANGED cli
    /\ UNCHANGED <<disk, engine, scripts, call, utility>>

\* show_benign_submenu: get_input("Select [1-3] or 0 (back) or -1 (exit):")
BenignChoice ==
    /\ cli.pc = "menu"
    /\ menu.pc = "benign"
    /\ \E choice \in {-1, 0, 1, 2, 3} :
         IF choice = -1 THEN MenuExits /\ UNCHANGED menu
         ELSE IF choice = 0 THEN menu' = [menu EXCEPT !.pc = "main"] /\ UNCHANGED cli
         ELSE IF BenignComponents[choice] \notin DOMAIN disk
              THEN menu' = [menu EXCEPT !.pc = "press_enter_benign"] /\ UNCHANGED cli
         ELSE /\ menu' = [menu EXCEPT !.scenarios = <<BenignComponents[choice]>>,
                                      !.pc = "scenario_menu"]
              /\ UNCHANGED cli
    /\ UNCHANGED <<disk, engine, scripts, call, utility>>

\* "Press Enter to continue...": input(), then the loop it is in goes on
PressEnter ==
    /\ cli.pc = "menu"
    /\ menu.pc \in {"press_enter", "press_enter_benign"}
    /\ menu' = [menu EXCEPT !.pc = IF menu.pc = "press_enter" THEN "main" ELSE "benign"]
    /\ UNCHANGED <<disk, cli, engine, scripts, call, utility>>

\* the keys detect_and_configure_placeholders prompts for: every string value of env
PromptKeys(document) ==
    LET Declared(key) == key \in DOMAIN document.env
    IN  SelectSeq(KeyOrder, Declared)

\* the scenario menu: exit, back, or a scenario, for which
\* detect_and_configure_placeholders starts
ScenarioChoice ==
    /\ cli.pc = "menu"
    /\ menu.pc = "scenario_menu"
    /\ \E choice \in -1..Len(menu.scenarios) :
         IF choice = -1 THEN MenuExits /\ UNCHANGED menu
         ELSE IF choice = 0 THEN menu' = [menu EXCEPT !.pc = "main"] /\ UNCHANGED cli
         ELSE /\ menu.configs < MaxConfigs
              /\ LET path     == menu.scenarios[choice]
                     document == disk[path]
                     chosen   == [menu EXCEPT !.selected = path, !.configs = menu.configs + 1,
                                              !.configured = "", !.user_values = EmptyEnv,
                                              !.keys = <<>>]
                 IN  IF ~document.readable
                     THEN menu' = chosen /\ UNCHANGED cli
                     ELSE IF document.null
                     THEN /\ menu' = chosen
                          /\ Exit(1, "[ERROR] Unexpected error")
                     ELSE IF PromptKeys(document) = <<>>
                     THEN /\ menu' = [chosen EXCEPT !.configured = path, !.pc = "confirm"]
                          /\ UNCHANGED cli
                     ELSE /\ menu' = [chosen EXCEPT !.keys = PromptKeys(document),
                                                    !.pc = "configure"]
                          /\ UNCHANGED cli
    /\ UNCHANGED <<disk, engine, scripts, call, utility>>

\* what the user types at a value prompt: Enter alone, or a value
TypedValues == {"", "192.168.8.1"}

\* the value prompted for is settled and the next key, if any, is prompted for
Settle(value) ==
    menu' = [menu EXCEPT !.user_values = (Head(menu.keys) :> value) @@ menu.user_values,
                         !.keys = Tail(menu.keys),
                         !.pc = IF Len(menu.keys) = 1 THEN "create_temp" ELSE "configure"]

\* the prompt for one key: Enter takes the default, and without a default the
\* prompt repeats until something is typed
PromptValue ==
    /\ cli.pc = "menu"
    /\ menu.pc \in {"configure", "configure_required"}
    /\ \E typed \in TypedValues :
         LET default == DefaultOf(disk[menu.selected].env[Head(menu.keys)])
         IN  IF typed = "" /\ default # "" /\ menu.pc = "configure" THEN Settle(default)
             ELSE IF typed = "" THEN menu' = [menu EXCEPT !.pc = "configure_required"]
             ELSE Settle(typed)
    /\ UNCHANGED <<disk, cli, engine, scripts, call, utility>>

\* the document with the user's values in place of the declared ones
Configure(document, user_values) ==
    [document EXCEPT !.env = [key \in DOMAIN document.env |->
                                IF key \in DOMAIN user_values THEN user_values[key]
                                ELSE document.env[key]]]

\* mutant: the configured document is written over the scenario file
WriteTarget_InPlace(selected, temp) == selected

\* the file the configured document is written to: the one mkstemp made
WriteTarget(selected, temp) == temp

\* tempfile.mkstemp and yaml.dump: the temporary file is made and written, or
\* mkstemp fails, or the write fails and leaves the file behind; a failure returns
\* None, and the menu goes back to the scenario list
CreateTemp ==
    /\ cli.pc = "menu"
    /\ menu.pc = "create_temp"
    /\ \E outcome \in {"written", "mkstemp_fails", "write_fails"} :
         LET temp   == TempPath(menu.configs)
             target == WriteTarget(menu.selected, temp)
         IN  IF outcome = "written"
             THEN /\ disk' = (target :> Configure(disk[menu.selected], menu.user_values))
                               @@ disk
                  /\ menu' = [menu EXCEPT !.configured = target, !.pc = "confirm"]
             ELSE IF outcome = "write_fails"
             THEN /\ disk' = (temp :> EmptyDoc) @@ disk
                  /\ menu' = [menu EXCEPT !.pc = "scenario_menu", !.write_failed = TRUE]
             ELSE /\ UNCHANGED disk
                  /\ menu' = [menu EXCEPT !.pc = "scenario_menu"]
    /\ UNCHANGED <<cli, engine, scripts, call, utility>>

\* the files without the one at path
Unlink(d, path) == [q \in DOMAIN d \ {path} |-> d[q]]

\* mutant: the configured file is deleted whatever it is
DeclineCleanup_Always(d, configured, selected) == Unlink(d, configured)

\* declining: `if configured_scenario != selected_scenario and
\* configured_scenario.exists(): configured_scenario.unlink()`
DeclineCleanup(d, configured, selected) ==
    IF configured # selected /\ configured \in DOMAIN d THEN Unlink(d, configured) ELSE d

\* the user declines: the temporary file goes and the scenario list comes back
Decline ==
    /\ disk' = DeclineCleanup(disk, menu.configured, menu.selected)
    /\ menu' = [menu EXCEPT !.pc = "scenario_menu", !.declined = TRUE]
    /\ UNCHANGED cli

\* confirm_execution: y or yes returns the configured path to `run`, anything else
\* declines
Confirm ==
    /\ cli.pc = "menu"
    /\ menu.pc = "confirm"
    /\ \E response \in {"y", "n", ""} :
         IF response = "y"
         THEN /\ cli' = [cli EXCEPT !.pc = "run_scenario", !.scenario = menu.configured]
              /\ menu' = [menu EXCEPT !.pc = "returned"]
              /\ UNCHANGED disk
         ELSE Decline
    /\ UNCHANGED <<engine, scripts, call, utility>>

\* the prompt the menu is at
PromptAt ==
    IF menu.pc = "main" THEN "category"
    ELSE IF menu.pc = "benign" THEN "benign_component"
    ELSE IF menu.pc = "scenario_menu" THEN "scenario"
    ELSE IF menu.pc = "confirm" THEN "confirmation"
    ELSE IF menu.pc \in {"configure", "configure_required"} THEN "configuration"
    ELSE IF menu.pc \in {"press_enter", "press_enter_benign"} THEN "press_enter"
    ELSE ""

\* mutant: the confirmation prompt ends the process like the selection prompts
GetInputPrompts_WithConfirmation ==
    {"category", "benign_component", "scenario", "confirmation"}

\* the prompts read through get_input, whose KeyboardInterrupt handler prints
\* "Interrupted by user." and calls sys.exit(0)
GetInputPrompts == {"category", "benign_component", "scenario"}

\* Ctrl-C at a prompt: get_input exits with status 0, confirm_execution takes it for
\* a refusal, and the bare input() of the value prompts and of "Press Enter" lets
\* KeyboardInterrupt through, which `except Exception` in `run` does not catch:
\* click aborts the process with status 1
KeyboardInterrupt ==
    /\ cli.pc = "menu"
    /\ PromptAt # ""
    /\ IF PromptAt \in GetInputPrompts
       THEN /\ Exit(0, "Interrupted by user.")
            /\ menu' = [menu EXCEPT !.interrupted_at = PromptAt,
                                    !.interrupts = menu.interrupts + 1]
            /\ UNCHANGED disk
       ELSE IF PromptAt = "confirmation"
       THEN /\ disk' = DeclineCleanup(disk, menu.configured, menu.selected)
            /\ menu' = [menu EXCEPT !.pc = "scenario_menu", !.declined = TRUE,
                                    !.interrupted_at = PromptAt,
                                    !.interrupts = menu.interrupts + 1]
            /\ UNCHANGED cli
       ELSE /\ Exit(1, "Aborted!")
            /\ menu' = [menu EXCEPT !.interrupted_at = PromptAt,
                                    !.interrupts = menu.interrupts + 1]
            /\ UNCHANGED disk
    /\ UNCHANGED <<engine, scripts, call, utility>>

\* how run_scenario ends: it returns, or raises
RunScenarioOutcomes(document) ==
    IF ~document.readable THEN {"ValueError"}
    ELSE IF document.null THEN {"Exception"}
    ELSE {"returns", "FileNotFoundError", "ValueError", "SystemExit(1)", "Exception",
          "KeyboardInterrupt"}

\* mutant: an unexpected exception is reported and the command ends normally
ExitCodeOf_ExceptionIgnored(outcome) ==
    IF outcome \in {"returns", "Exception"} THEN 0 ELSE 1

\* the exit status of `run` for an outcome of run_scenario: the three except
\* clauses call sys.exit(1), SystemExit(1) passes through them, and click turns
\* KeyboardInterrupt into an abort with status 1
ExitCodeOf(outcome) == IF outcome = "returns" THEN 0 ELSE 1

\* run_scenario is called with the scenario and `run` ends
RunScenario ==
    /\ cli.pc = "run_scenario"
    /\ \E outcome \in RunScenarioOutcomes(disk[cli.scenario]) :
         Exit(ExitCodeOf(outcome), outcome)
    /\ UNCHANGED <<disk, menu, engine, scripts, call, utility>>

NextCommand ==
    \/ Click
    \/ CategoryChoice
    \/ BenignChoice
    \/ PressEnter
    \/ ScenarioChoice
    \/ PromptValue
    \/ CreateTemp
    \/ Confirm
    \/ KeyboardInterrupt
    \/ RunScenario

SpecCommand == InitCommand /\ [][NextCommand]_vars

\* ---------------------------------------------------------------- claims
StartEvents == {"ATTACK_START", "BENIGN_START"}

EndEvents == {"ATTACK_END", "BENIGN_END"}

\* the positions in `markers` of the markers of run k with an event of evs
MarkersOf(k, evs) ==
    { m \in 1..Len(markers) : markers[m].run = k /\ markers[m].event \in evs }

\* execute_run has returned for run k
Returned(k) == \E j \in 1..Len(results) : results[j].index = k

ResultOf(k) == results[CHOOSE j \in 1..Len(results) : results[j].index = k]

C2_OneChildAtATime ==
    /\ Cardinality(alive) <= 1
    /\ \A j \in 1..Len(results) : results[j].index \notin alive
    /\ \A k \in alive : k = i

\* the second run's child is running after the first run's child was force-killed
C2_Witness ==
    /\ Len(launches) = 2
    /\ alive = {2}
    /\ Len(results) = 1
    /\ now >= 10 * TicksPerSec

\* C3: results holds the runs in document order, children are launched in document
\* order, and the aggregate metadata holds one record per run, in document order.
C3_DocumentOrder ==
    /\ \A j \in 1..Len(results) : results[j].index = j
    /\ \A a, b \in 1..Len(launches) : a < b => launches[a] < launches[b]
    /\ \A f \in 1..Len(scenario_metadata) :
         LET recs == scenario_metadata[f].runs
         IN  /\ Len(recs) = Len(scenario)
             /\ \A j \in 1..Len(recs) :
                  /\ recs[j].id = results[j].run_id
                  /\ SubSeq(recs[j].id, 1, Len(scenario[j].id)) = scenario[j].id

\* the aggregate metadata of a scenario of two different runs is written
C3_Witness ==
    /\ Len(scenario_metadata) = 1
    /\ Len(results) = 2
    /\ scenario[1].id # scenario[2].id

\* C4: when a run has returned with a non-zero return code, that return code is what
\* its run_metadata.json was written with, and the next run of the scenario, if
\* there is one, is started.
C4_FailureContinues ==
    /\ \A j \in 1..Len(results) :
         results[j].returncode # 0 /\ j < Len(scenario) => i > j \/ (i = j /\ pc = "loop")
    /\ Len(results) > 0 /\ Len(results) = i /\ pc \in {"loop", "exited"} =>
         run_metadata[results[i].run_id].returncode = results[i].returncode

\* the second run has returned after the first one failed
C4_Witness ==
    /\ Len(results) = 2
    /\ results[1].returncode = 1
    /\ run_metadata[results[2].run_id].returncode = results[2].returncode

\* run k declares a value with the placeholder marker that injection does not replace
HasPlaceholder(k) ==
    \E key \in DOMAIN scenario[k].env \ {"RUN_ID", "OUT_DIR"} :
        Contains(scenario[k].env[key], "_PLACEHOLDER")

\* C5: once the engine has prepared a run whose environment holds a placeholder, the
\* invocation has ended with PlaceholderNotConfigured and exit status 1: the run has
\* no marker, no child and no result, and no later run is started.
C5_PlaceholderFatal ==
    \A k \in 1..Len(scenario) :
        HasPlaceholder(k) /\ (i > k \/ (i = k /\ pc # "prepare")) =>
            /\ i = k
            /\ pc = "exited"
            /\ exit_status = 1
            /\ error_kind = "PlaceholderNotConfigured"
            /\ MarkersOf(k, StartEvents \cup EndEvents) = {}
            /\ \A p \in 1..Len(launches) : launches[p] # k
            /\ ~Returned(k)

\* the second run's placeholder ended the invocation after the first run ran
C5_Witness ==
    /\ Len(scenario) = 2
    /\ HasPlaceholder(2)
    /\ i = 2
    /\ pc = "exited"
    /\ Len(results) = 1
    /\ Len(launches) = 1

\* execute_run has the final return code of the current run
Normalized == run.launched /\ pc \in {"end_marker", "save_run", "loop", "exited"}
              /\ error_kind \notin {"KeyboardInterrupt", "UnicodeDecodeError"}

\* the engine (duration expiry) or the user interrupted the current run
Interrupted == proc.t_expiry_sigint >= 0 \/ run.user_interrupted

\* C6: for a duration-bounded run the engine or the user interrupted, a child exit
\* code of -2, 130, 143 or 0, or any negative one, is recorded as return code 0: in
\* the run's result, in its end marker and in its run_metadata.json.
C6_InterruptedExitIsSuccess ==
    Normalized /\ run.has_duration /\ Interrupted
      /\ (proc.rc \in {-2, 130, 143, 0} \/ proc.rc < 0) =>
        /\ run.returncode = 0
        /\ markers_enabled /\ pc \in {"save_run", "loop", "exited"} =>
             /\ markers[Len(markers)].event \in EndEvents
             /\ markers[Len(markers)].metadata.returncode = 0
        /\ pc \in {"loop", "exited"} =>
             /\ results[Len(results)].returncode = 0
             /\ run_metadata[run.run_id_unique].returncode = 0

\* a duration-bounded run whose child answered the expiry interrupt with 130 has
\* returned
C6_Witness ==
    /\ pc = "loop"
    /\ run.has_duration
    /\ proc.t_expiry_sigint >= 0
    /\ proc.rc = 130
    /\ results[Len(results)].returncode = 0

\* the current run is duration-bounded, was not interrupted by the user, and its
\* child ignored the expiry interrupt until the engine killed it
ExpiryKilled ==
    /\ run.has_duration
    /\ ~run.user_interrupted
    /\ proc.t_expiry_sigint >= 0
    /\ proc.t_kill >= 0

\* C7 as claimed: the graceful interrupt comes no earlier than N seconds after the
\* run starts, the kill no earlier than N and no later than N + 10 seconds after it.
C7_KillWithinNPlus10 ==
    ExpiryKilled =>
        /\ proc.t_expiry_sigint - run.start_time >= run.duration_secs * TicksPerSec
        /\ proc.t_kill - run.start_time >= run.duration_secs * TicksPerSec
        /\ proc.t_kill - run.start_time <= (run.duration_secs + 10) * TicksPerSec

\* C7 as amended: the graceful interrupt comes no earlier than N seconds after the
\* run starts and less than one polling interval (a second and the loop's overhead)
\* after N seconds; the kill comes 10 seconds after the interrupt, so no earlier
\* than N + 10 seconds after the run starts.
C7_KillAfterGrace ==
    ExpiryKilled =>
        /\ proc.t_expiry_sigint - run.start_time >= run.duration_secs * TicksPerSec
        /\ proc.t_expiry_sigint - run.start
             < (run.duration_secs + 1) * TicksPerSec + MaxOverhead
        /\ proc.t_kill - proc.t_expiry_sigint = 10 * TicksPerSec
        /\ proc.t_kill - run.start_time >= (run.duration_secs + 10) * TicksPerSec

\* a child that ignored the expiry interrupt was killed later than N + 10 seconds
\* after the run started
C7_Witness ==
    /\ ExpiryKilled
    /\ run.duration_secs = 2
    /\ proc.t_kill - run.start_time > (run.duration_secs + 10) * TicksPerSec

\* C8 as claimed, first part: a user interrupt that arrives while a child runs is
\* forwarded to the child and never ends the engine.
C8_UserInterruptNeverEndsEngine == error_kind # "KeyboardInterrupt"

\* C8 as claimed, second part: once the user has interrupted a known-duration run,
\* the engine does not send the duration-expiry interrupt as well.
C8_UserInterruptSuppressesExpiry == ~proc.expiry_after_user

\* C9 as claimed: a dry run launches no child, every run that returns has return
\* code 0 and the literal stdout in its result and its run_metadata.json, and the
\* invocation of a valid scenario without placeholders ends with status 0.
C9_DryRunExitsZero ==
    dry_run =>
        /\ launches = <<>>
        /\ \A j \in 1..Len(results) :
             /\ results[j].returncode = 0
             /\ results[j].stdout = "[dry run - no output]"
             /\ results[j].run_id \in DOMAIN run_metadata
             /\ run_metadata[results[j].run_id].returncode = 0
             /\ run_metadata[results[j].run_id].stdout = "[dry run - no output]"
        /\ pc = "exited" /\ doc = "valid"
             /\ (\A k \in 1..Len(scenario) : ~HasPlaceholder(k)) => exit_status = 0

\* the preparation of run k finds nothing wrong
Runnable(k) ==
    /\ ~HasPlaceholder(k)
    /\ scenario[k].script = "ok"
    /\ scenario[k].profile # "missing"

\* C9 as amended: the same, with status 0 for a valid scenario all of whose runs
\* have no placeholder, a script that exists and is executable and a profile that
\* loads; every run of it returns.
C9_DryRun ==
    dry_run =>
        /\ launches = <<>>
        /\ alive = {}
        /\ \A j \in 1..Len(results) :
             /\ results[j].returncode = 0
             /\ results[j].stdout = "[dry run - no output]"
             /\ results[j].run_id \in DOMAIN run_metadata
             /\ run_metadata[results[j].run_id].returncode = 0
             /\ run_metadata[results[j].run_id].stdout = "[dry run - no output]"
        /\ pc = "exited" /\ doc = "valid" /\ (\A k \in 1..Len(scenario) : Runnable(k)) =>
             /\ exit_status = 0
             /\ Len(results) = Len(scenario)

\* a dry run of two runs has ended with status 0
C9_Witness ==
    /\ dry_run
    /\ pc = "exited"
    /\ exit_status = 0
    /\ Len(results) = 2
    /\ DOMAIN run_metadata # {}

HasField(v, key) == v.kind = "map" /\ key \in v.keys

\* the document lacks a required part: `scenario`, scenario.name, `runs`, a list
\* for `runs`, an entry in it, or `id`, `script` or `type` in some entry
Malformed(d) ==
    \/ d.kind # "map"
    \/ d.scenario.kind = "absent"
    \/ ~HasField(d.scenario, "name")
    \/ d.runs.kind # "list"
    \/ Len(d.runs.items) = 0
    \/ \E k \in 1..Len(d.runs.items) :
         \E key \in {"id", "script", "type"} : ~HasField(d.runs.items[k], key)

\* C11: validate_scenario_schema raises a validation error (ValueError, with a
\* message) for every document that lacks a required part, and returns for every
\* other document.
C11_SchemaRejectsMalformed ==
    call.fn = "validate_scenario_schema" /\ call.done =>
        IF Malformed(call.arg)
        THEN call.result.raised = "ValueError" /\ call.result.message # ""
        ELSE call.result = Passed

\* C11, the part that holds: a document that lacks a required part and whose
\* `scenario` and run entries are all mappings is rejected with a validation error,
\* and a document that has every required part is accepted.
C11_MappingsOnly ==
    call.fn = "validate_scenario_schema" /\ call.done
      /\ call.arg.kind = "map"
      /\ call.arg.scenario.kind \in {"map", "absent"}
      /\ (call.arg.runs.kind = "list" =>
            \A k \in 1..Len(call.arg.runs.items) : call.arg.runs.items[k].kind = "map") =>
        IF Malformed(call.arg)
        THEN call.result.raised = "ValueError" /\ call.result.message # ""
        ELSE call.result = Passed

\* a document whose `scenario` is a string with "name" in it has been accepted
C11_Witness ==
    /\ call.fn = "validate_scenario_schema"
    /\ call.done
    /\ call.arg.scenario.kind = "str"
    /\ call.result = Passed

\* C12: detect_placeholders reports KEY=VALUE for exactly the keys whose value has
\* the marker _PLACEHOLDER somewhere in it, whatever else the value holds.
C12_ExactSubstring ==
    call.fn = "detect_placeholders" /\ call.done =>
        call.result =
            { k \o "=" \o call.arg[k] :
                k \in { x \in DOMAIN call.arg : call.arg[x] \in Unconfigured } }

\* one key with the marker inside its value is reported, one with other underscores
\* and a near miss is not
C12_Witness ==
    /\ call.fn = "detect_placeholders"
    /\ call.done
    /\ DOMAIN call.arg = EnvKeys
    /\ call.arg["TARGET_IP"] = "a_b_PLACEHOLDER_"
    /\ call.arg["MQTT_USER"] = "_PLACE_HOLDER"
    /\ call.result = {"TARGET_IP=a_b_PLACEHOLDER_"}

\* the sends of run k that failed
FailedSends(k) ==
    { m \in 1..Len(markers) : markers[m].run = k /\ markers[m].outcome # "sent" }

\* C13: a send that fails (timeout or socket error) never ends the invocation; a
\* run with a failed send that execute_run has returned for had its child launched
\* (unless it is a dry run), its end marker attempted after its start marker, and its
\* run_metadata.json written; a disabled marker system sends nothing.
C13_MarkerFailureSwallowed ==
    /\ error_kind \notin {"MarkerError", "MarkerTimeout"}
    /\ ~markers_enabled => markers = <<>>
    /\ \A k \in 1..Len(scenario) :
         FailedSends(k) # {} =>
           /\ i >= k
           /\ i = k /\ pc = "exited" =>
                error_kind \in {"", "KeyboardInterrupt", "UnicodeDecodeError", "OSError"}
           /\ Returned(k) =>
                /\ Cardinality(MarkersOf(k, StartEvents)) = 1
                /\ Cardinality(MarkersOf(k, EndEvents)) = 1
                /\ ~dry_run => \E p \in 1..Len(launches) : launches[p] = k
                /\ ResultOf(k).run_id \in DOMAIN run_metadata

\* a run whose start marker timed out and whose end marker met a socket error has
\* returned, its child launched and ended, its metadata written
C13_Witness ==
    /\ Returned(1)
    /\ Len(markers) = 2
    /\ markers[1].outcome = "timeout"
    /\ markers[2].outcome = "error"
    /\ launches = <<1>>
    /\ alive = {}
    /\ results[1].run_id \in DOMAIN run_metadata

\* execute_run has assembled the environment of the current run
Prepared ==
    /\ i >= 1
    /\ pc \notin {"load", "prepare", "exited", "idle"}
    /\ pc = "loop" => Len(results) = i

\* C14: the assembled environment has RUN_ID equal to the run id and OUT_DIR equal
\* to the run's outputs directory whatever the run declared for them, TOOL_ARGS
\* equal to the profile's tool_args if the run references a profile and as declared
\* (or absent) if not, and every other declared value as declared; the child's
\* environment has every assembled value, and the host's values for the other keys.
C14_AssembledEnv ==
    Prepared =>
        LET r == scenario[i]
            engine_keys == {"RUN_ID", "OUT_DIR", "TOOL_ARGS"}
        IN  /\ run.env["RUN_ID"] = run.run_id_unique
            /\ run.env["OUT_DIR"] = "runs/" \o run.run_id_unique \o "/outputs"
            /\ Returned(i) => ResultOf(i).run_id = run.env["RUN_ID"]
            /\ r.profile # "none" =>
                 /\ "TOOL_ARGS" \in DOMAIN run.env
                 /\ run.env["TOOL_ARGS"] = IF r.profile = "template"
                                            THEN "-p PORTS_PLACEHOLDER" ELSE "-sS -T4"
            /\ r.profile = "none" =>
                 /\ "TOOL_ARGS" \in DOMAIN run.env <=> "TOOL_ARGS" \in DOMAIN r.env
                 /\ "TOOL_ARGS" \in DOMAIN r.env => run.env["TOOL_ARGS"] = r.env["TOOL_ARGS"]
            /\ DOMAIN run.env = DOMAIN r.env \cup {"RUN_ID", "OUT_DIR"}
                                  \cup (IF r.profile # "none" THEN {"TOOL_ARGS"} ELSE {})
            /\ \A key \in DOMAIN r.env \ engine_keys : run.env[key] = r.env[key]
            /\ proc.state # "none" =>
                 /\ DOMAIN proc.env = DOMAIN run.env \cup DOMAIN HostEnv
                 /\ \A key \in DOMAIN run.env : proc.env[key] = run.env[key]
                 /\ \A key \in DOMAIN HostEnv \ DOMAIN run.env : proc.env[key] = HostEnv[key]

\* the child of a run that declared RUN_ID runs with the engine's RUN_ID, not the
\* declared one and not the host's, and with the host's TARGET_IP
C14_Witness ==
    /\ Prepared
    /\ proc.state = "alive"
    /\ "RUN_ID" \in DOMAIN scenario[i].env
    /\ proc.env["RUN_ID"] = run.run_id_unique
    /\ proc.env["RUN_ID"] # scenario[i].env["RUN_ID"]
    /\ proc.env["TARGET_IP"] = "192.168.1.1"

\* ------------------------------------ the duration backfill utility (part_000)
\* a run entry of a scenario file, as the utility sees it: without env, with an
\* empty `env:`, with an env that lacks DURATION_SECONDS, with one that has it
NoEnvEntry == [has_env |-> FALSE, env_null |-> FALSE, env |-> EmptyEnv]

NullEnvEntry == [has_env |-> TRUE, env_null |-> TRUE, env |-> EmptyEnv]

OpenEntry == [has_env |-> TRUE, env_null |-> FALSE, env |-> ("TARGET_IP" :> "10.0.0.5")]

TimedEntry == [has_env |-> TRUE, env_null |-> FALSE, env |-> ("DURATION_SECONDS" :> "60")]

EntryKinds == {NoEnvEntry, NullEnvEntry, OpenEntry, TimedEntry}

\* what yaml.safe_load makes of a scenario file: a parse error, None (an empty
\* file), a mapping without runs, `runs:` without a value, a list of runs
YamlContents ==
    {[kind |-> k, runs |-> <<>>] : k \in {"unparsable", "empty", "no_runs", "null_runs"}}
      \cup {[kind |-> "runs", runs |-> entries] :
              entries \in UNION {[1..n -> EntryKinds] : n \in 1..MaxEntries}}

\* for category in NEEDS_DURATION: sorted(category_dir.glob('*.yaml')), for two of
\* the four categories
\* mutant: the files of every category are processed
BackfillPaths_EveryCategory ==
    <<"scenarios/denial_of_service/01.yaml", "scenarios/mitm/01.yaml",
      "scenarios/nmap/01.yaml">>

BackfillPaths == <<"scenarios/denial_of_service/01.yaml", "scenarios/mitm/01.yaml">>

\* a scenario file of a category that is not in NEEDS_DURATION, with a run whose
\* env lacks DURATION_SECONDS
OutsidePath == "scenarios/nmap/01.yaml"

OutsideFile == [content |-> [kind |-> "runs", runs |-> <<OpenEntry>>], writable |-> TRUE]

\* mutant: DURATION_SECONDS is set whether it is there or not
NeedsDuration_Always(env) == TRUE

\* 'DURATION_SECONDS' not in run['env']
NeedsDuration(env) == "DURATION_SECONDS" \notin DOMAIN env

\* the loop over data['runs']: a run without env is skipped, an env that is None
\* raises TypeError, an env without DURATION_SECONDS gets the placeholder
RECURSIVE AddDuration(_)
AddDuration(entries) ==
    IF entries = <<>> THEN [raised |-> FALSE, modified |-> FALSE, runs |-> <<>>]
    ELSE LET entry == Head(entries)
             rest  == AddDuration(Tail(entries))
         IN  IF ~entry.has_env THEN [rest EXCEPT !.runs = <<entry>> \o rest.runs]
             ELSE IF entry.env_null
                  THEN [raised |-> TRUE, modified |-> FALSE, runs |-> entries]
             ELSE IF NeedsDuration(entry.env)
                  THEN [rest EXCEPT
                          !.modified = TRUE,
                          !.runs = <<[entry EXCEPT !.env =
                                        ("DURATION_SECONDS" :> "DURATION_SECONDS_PLACEHOLDER")
                                          @@ entry.env]>> \o rest.runs]
             ELSE [rest EXCEPT !.runs = <<entry>> \o rest.runs]

\* add_duration_to_yaml: whether the file counts as modified, and the file after
\* the call; the file is rewritten only if a run was modified, and any exception
\* (parse error, TypeError, a file that cannot be opened for writing) gives False
add_duration_to_yaml(yaml_file) ==
    LET data  == yaml_file.content
        added == AddDuration(data.runs)
    IN  IF data.kind # "runs" \/ added.raised \/ ~added.modified \/ ~yaml_file.writable
        THEN [modified |-> FALSE, file |-> yaml_file]
        ELSE [modified |-> TRUE,
              file |-> [yaml_file EXCEPT !.content = [data EXCEPT !.runs = added.runs]]]

\* the files of a list that exist, in the order of the list
RECURSIVE Existing(_, _)
Existing(paths, present) ==
    IF paths = <<>> THEN <<>>
    ELSE IF Head(paths) \in present THEN <<Head(paths)>> \o Existing(Tail(paths), present)
    ELSE Existing(Tail(paths), present)

\* The utility is run twice from the project root (pass 1 and pass 2): the state
\* is the file that comes next, the count of modified files, the files rewritten
\* in this pass, and what the first pass left and reported.
InitBackfill ==
    /\ EngineIdle
    /\ ScriptsIdle
    /\ PureIdle
    /\ CommandIdle
    /\ \E present \in SUBSET ({BackfillPaths[k] : k \in DOMAIN BackfillPaths}
                                \cup {OutsidePath}) :
         /\ tree \in [present -> [content : YamlContents, writable : BOOLEAN]]
         /\ OutsidePath \in present => tree[OutsidePath] = OutsideFile
    /\ \E scenarios_dir \in BOOLEAN :
         backfill = [pc |-> IF scenarios_dir THEN "main" ELSE "no_scenarios_dir",
                     pass |-> 1, queue |-> <<>>, total_modified |-> 0, rewritten |-> {},
                     first_modified |-> 0, first_tree |-> [p \in {} |-> 0],
                     original |-> tree, exit_code |-> -1]
    /\ backfill.pc = "no_scenarios_dir" => tree = [p \in {} |-> 0]

\* main: without scenarios/ the utility ends with status 1
ExitNoScenariosDir ==
    /\ backfill.pc = "no_scenarios_dir"
    /\ backfill' = [backfill EXCEPT !.pc = "done", !.exit_code = 1]
    /\ UNCHANGED <<tree, engine, scripts, call, command>>

\* main: a pass begins with no file modified
StartPass ==
    /\ backfill.pc = "main"
    /\ backfill' = [backfill EXCEPT !.pc = "files",
                                    !.queue = Existing(BackfillPaths, DOMAIN tree),
                                    !.total_modified = 0,
                                    !.rewritten = {}]
    /\ UNCHANGED <<tree, engine, scripts, call, command>>

\* main: the next file is processed and counted if it was modified
ProcessFile ==
    /\ backfill.pc = "files"
    /\ backfill.queue # <<>>
    /\ LET path    == Head(backfill.queue)
           outcome == add_duration_to_yaml(tree[path])
       IN  /\ tree' = [tree EXCEPT ![path] = outcome.file]
           /\ backfill' = [backfill EXCEPT
                 !.queue = Tail(backfill.queue),
                 !.total_modified = IF outcome.modified THEN backfill.total_modified + 1
                                    ELSE backfill.total_modified,
                 !.rewritten = IF outcome.modified THEN backfill.rewritten \cup {path}
                               ELSE backfill.rewritten]
    /\ UNCHANGED <<engine, scripts, call, command>>

\* main: "Modified N files"; after the first pass the utility is run again
EndPass ==
    /\ backfill.pc = "files"
    /\ backfill.queue = <<>>
    /\ IF backfill.pass = 1
       THEN backfill' = [backfill EXCEPT !.pc = "main", !.pass = 2,
                                         !.first_modified = backfill.total_modified,
                                         !.first_tree = tree]
       ELSE backfill' = [backfill EXCEPT !.pc = "done", !.exit_code = 0]
    /\ UNCHANGED <<tree, engine, scripts, call, command>>

NextBackfill ==
    \/ ExitNoScenariosDir
    \/ StartPass
    \/ ProcessFile
    \/ EndPass

SpecBackfill == InitBackfill /\ [][NextBackfill]_vars

\* the scenario files of the workspace and of the command line
Originals == WorkspacePaths \cup {ArgPath}

\* the temporary files the menu has made and that are still there
TempFiles == DOMAIN disk \ Originals

\* the messages of the errors `run` reports
ReportedErrors ==
    {"Error: Invalid value for SCENARIO", "[ERROR] Unexpected error",
     "FileNotFoundError", "ValueError", "SystemExit(1)", "Exception"}

\* C15: `run` ends with status 1 on every reported error (a missing scenario file, a
\* validation failure, a domain error, an unexpected exception) and with status 0
\* otherwise (leaving the menu, a scenario that completed).  Refuted: a SCENARIO
\* that names no file is refused by click.Path(exists=True) with status 2.
C15_ExitStatus ==
    (cli.pc = "exited" /\ cli.message \notin {"Aborted!", "KeyboardInterrupt"})
        => cli.exit_code = IF cli.message \in ReportedErrors THEN 1 ELSE 0

\* C15, once `run` is entered: the statuses are as the claim says
C15_ExitStatusOnceEntered ==
    (cli.pc = "exited" /\ cli.argument # "nofile"
                       /\ cli.message \notin {"Aborted!", "KeyboardInterrupt"})
        => cli.exit_code = IF cli.message \in ReportedErrors THEN 1 ELSE 0

\* the command was given a missing file and has ended
C15_Witness == cli.pc = "exited" /\ cli.argument = "nofile"

\* C16: no step of the menu changes or removes a scenario file; a file whose
\* contents a step changes or creates is a temporary file that did not exist
C16_OriginalsUntouched ==
    [][ /\ \A path \in DOMAIN disk \cap Originals :
             path \in DOMAIN disk' /\ disk'[path] = disk[path]
        /\ \A path \in DOMAIN disk' :
             (path \notin DOMAIN disk \/ disk'[path] # disk[path])
                 => path \notin Originals /\ path \notin DOMAIN disk ]_vars

\* configured values that differ from the declared ones were written, and the
\* scenario file still declares its own
C16_Witness ==
    /\ menu.pc = "confirm"
    /\ menu.configured # menu.selected
    /\ menu.configured \in DOMAIN disk
    /\ disk[menu.configured].env # disk[menu.selected].env
    /\ disk[menu.selected] = CfgDoc

C19_InterruptReturnsToMenu ==
    menu.interrupted_at = "configuration"
        => cli.pc = "menu" /\ menu.pc = "scenario_menu" /\ TempFiles = {}

\* C19, the part that holds: Ctrl-C at a value prompt leaves no temporary file of
\* the configuration it interrupts
C19_NoTempLeft ==
    menu.interrupted_at = "configuration" => TempPath(menu.configs) \notin DOMAIN disk

\* Ctrl-C at a value prompt ended the process
C19_Witness ==
    menu.interrupted_at = "configuration" /\ cli.pc = "exited" /\ cli.exit_code = 1

\* C20: the second pass of the backfill utility counts no modified file, rewrites
\* no file and leaves every file as the first pass left it
C20_BackfillIdempotent ==
    (backfill.pass = 2 /\ backfill.pc \in {"files", "done"})
        => /\ backfill.total_modified = 0
           /\ backfill.rewritten = {}
           /\ tree = backfill.first_tree

\* both passes are over, the first one modified a file and skipped another
C20_Witness ==
    /\ backfill.pc = "done"
    /\ backfill.pass = 2
    /\ backfill.first_modified = 1
    /\ Cardinality(DOMAIN tree \ {OutsidePath}) = 2
    /\ \E path \in DOMAIN tree \ {OutsidePath} :
         \E k \in DOMAIN tree[path].content.runs :
           LET env == tree[path].content.runs[k].env
           IN  /\ "DURATION_SECONDS" \in DOMAIN env
               /\ env["DURATION_SECONDS"] = "DURATION_SECONDS_PLACEHOLDER"

\* the scenario files of the targeted categories
TargetedFiles == DOMAIN tree \ {OutsidePath}

\* the value a run declares for DURATION_SECONDS, "" if it declares none
DurationOf(entry) ==
    IF entry.has_env /\ ~entry.env_null /\ "DURATION_SECONDS" \in DOMAIN entry.env
    THEN entry.env["DURATION_SECONDS"]
    ELSE ""

\* a file the utility can process: it parses to a list of runs, no run has an
\* `env:` without a value, and it can be written
Processable(yaml_file) ==
    /\ yaml_file.content.kind = "runs"
    /\ yaml_file.writable
    /\ \A k \in DOMAIN yaml_file.content.runs : ~yaml_file.content.runs[k].env_null

\* C21, as claimed: after one pass every run of every file of the targeted
\* categories has DURATION_SECONDS equal to the placeholder, and the other files
\* are as they were.  Refuted by a run without env and by a run that already has a
\* duration.
C21_EveryRunHasPlaceholder ==
    backfill.pass = 2
        => /\ \A path \in TargetedFiles :
                \A k \in DOMAIN tree[path].content.runs :
                    DurationOf(tree[path].content.runs[k]) = "DURATION_SECONDS_PLACEHOLDER"
           /\ \A path \in DOMAIN tree \ TargetedFiles :
                tree[path] = backfill.original[path]

\* C21, amended: after one pass, in every file of the targeted categories that the
\* utility can process, every run that has an env has DURATION_SECONDS: the
\* placeholder if it had none, the value it had otherwise; a run without env is as
\* it was; a file that cannot be processed and every file of another category is
\* as it was
C21_PlaceholderWhereAbsent ==
    backfill.pass = 2
        => \A path \in DOMAIN tree :
             LET before == backfill.original[path]
                 after  == tree[path]
             IN  IF path \in TargetedFiles /\ Processable(before)
                 THEN /\ after.writable = before.writable
                      /\ after.content.kind = "runs"
                      /\ Len(after.content.runs) = Len(before.content.runs)
                      /\ \A k \in DOMAIN before.content.runs :
                           LET was == before.content.runs[k]
                               is  == after.content.runs[k]
                           IN  IF ~was.has_env THEN is = was
                               ELSE /\ is.has_env
                                    /\ DurationOf(is) =
                                         IF DurationOf(was) = ""
                                         THEN "DURATION_SECONDS_PLACEHOLDER"
                                         ELSE DurationOf(was)
                                    /\ \A key \in DOMAIN was.env :
                                         key \in DOMAIN is.env /\ is.env[key] = was.env[key]
                 ELSE after = before

\* the first pass is over: it gave a run the placeholder, left the duration of
\* another run of the same file alone, and did not touch the file of another category
C21_Witness ==
    /\ backfill.pass = 2
    /\ OutsidePath \in DOMAIN tree
    /\ \E path \in TargetedFiles :
         /\ backfill.original[path].content.runs = <<OpenEntry, TimedEntry>>
         /\ DurationOf(tree[path].content.runs[1]) = "DURATION_SECONDS_PLACEHOLDER"
         /\ DurationOf(tree[path].content.runs[2]) = "60"

\* ------------------------------------------- the MQTT-to-SQL bridge (MQTT_Bridge.py)
\* A payload, by what decoding makes of it: bytes that are not UTF-8, text that is
\* not JSON, JSON that is not an object, and objects with id 0, without id, with
\* id 7 and with id null.
Payloads ==
    {[utf8 |-> FALSE, json |-> FALSE, object |-> FALSE, id |-> "absent"],
     [utf8 |-> TRUE,  json |-> FALSE, object |-> FALSE, id |-> "absent"],
     [utf8 |-> TRUE,  json |-> TRUE,  object |-> FALSE, id |-> "absent"],
     [utf8 |-> TRUE,  json |-> TRUE,  object |-> TRUE,  id |-> "0"],
     [utf8 |-> TRUE,  json |-> TRUE,  object |-> TRUE,  id |-> "absent"],
     [utf8 |-> TRUE,  json |-> TRUE,  object |-> TRUE,  id |-> "7"],
     [utf8 |-> TRUE,  json |-> TRUE,  object |-> TRUE,  id |-> "null"]}

\* msg.payload.decode('utf-8') and json.loads(payload) succeed
Decodes(payload) == payload.utf8 /\ payload.json

\* mutant: a payload without id is given the id 7
SensorId_DefaultSeven(data) == IF data.id = "absent" THEN "7" ELSE data.id

\* sensor_data.get('id', 0)
SensorId(data) == IF data.id = "absent" THEN "0" ELSE data.id

\* what is recorded of a message: its payload, whether it was counted as received
\* and as an error, the thread started for it (none, start, count_written,
\* count_errors, done), the counter value that thread has read, and what the
\* thread did with the database; conn is the connection the thread opened: "none",
\* "closed" (conn.close() was called), "open" (the thread is past the last use of
\* it and has not closed it), "reclaimed" (the interpreter freed the object)
Message(payload) ==
    [payload |-> payload, received |-> FALSE, error |-> FALSE, thread |-> "none",
     read |-> 0, connected |-> FALSE, updated |-> FALSE, written |-> FALSE,
     conn |-> "none"]

InitBridge ==
    /\ EngineIdle
    /\ FrameworkIdle
    /\ BeaconIdle
    /\ SwarmIdle
    /\ InjectorIdle
    /\ bridge = [pc |-> "loop",
                 stats |-> [received |-> 0, written |-> 0, errors |-> 0],
                 msgs |-> <<>>,
                 handler |-> [pc |-> "idle", read |-> 0]]

\* on_message up to the end of its try block or to the read of stats['errors'] in
\* an except clause: received is counted after json.loads, the print of
\* data.get('id') fails for JSON that is not an object, and otherwise the writer
\* thread is started
on_message ==
    /\ bridge.pc = "loop"
    /\ bridge.handler.pc = "idle"
    /\ Len(bridge.msgs) < MaxMessages
    /\ \E payload \in Payloads :
         LET counted == [bridge.stats EXCEPT !.received = bridge.stats.received + 1]
         IN  IF ~Decodes(payload)
             THEN bridge' = [bridge EXCEPT
                    !.msgs = Append(bridge.msgs, Message(payload)),
                    !.handler = [pc |-> "count_errors", read |-> bridge.stats.errors]]
             ELSE IF ~payload.object
             THEN bridge' = [bridge EXCEPT
                    !.stats = counted,
                    !.msgs = Append(bridge.msgs,
                                    [Message(payload) EXCEPT !.received = TRUE]),
                    !.handler = [pc |-> "count_errors", read |-> bridge.stats.errors]]
             ELSE bridge' = [bridge EXCEPT
                    !.stats = counted,
                    !.msgs = Append(bridge.msgs,
                                    [Message(payload) EXCEPT !.received = TRUE,
                                                             !.thread = "start"])]
    /\ UNCHANGED <<framework, beacon, swarm, injector>>

\* on_message's except clause: stats['errors'] += 1 stores the value read plus one
on_message_error ==
    /\ bridge.pc = "loop"
    /\ bridge.handler.pc = "count_errors"
    /\ bridge' = [bridge EXCEPT
          !.stats.errors = bridge.handler.read + 1,
          !.msgs[Len(bridge.msgs)].error = TRUE,
          !.handler = [pc |-> "idle", read |-> 0]]
    /\ UNCHANGED <<framework, beacon, swarm, injector>>

\* how the database answers: the UPDATE is committed, connect fails, execute fails
DbOutcomes == {"ok", "connect_error", "execute_error"}

\* the connection when write_to_sql leaves its try block: cursor.close() and
\* conn.close() follow conn.commit() and are skipped when execute or commit raises
ConnAfter(outcome) ==
    IF outcome = "connect_error" THEN "none"
    ELSE IF outcome = "ok" THEN "closed"
    ELSE "open"

\* write_to_sql in its thread, up to the read of the counter it will update: id 0
\* returns at once; otherwise it connects and issues the UPDATE
write_to_sql(k) ==
    /\ bridge.pc = "loop"
    /\ bridge.msgs[k].thread = "start"
    /\ IF SensorId(bridge.msgs[k].payload) = "0"
       THEN bridge' = [bridge EXCEPT !.msgs[k].thread = "done"]
       ELSE \E outcome \in DbOutcomes :
              bridge' = [bridge EXCEPT
                 !.msgs[k].connected = outcome # "connect_error",
                 !.msgs[k].updated = outcome = "ok",
                 !.msgs[k].conn = ConnAfter(outcome),
                 !.msgs[k].thread = IF outcome = "ok" THEN "count_written"
                                    ELSE "count_errors",
                 !.msgs[k].read = IF outcome = "ok" THEN bridge.stats.written
                                  ELSE bridge.stats.errors]
    /\ UNCHANGED <<framework, beacon, swarm, injector>>

\* the thread's stats[...] += 1 stores the value it read plus one
write_to_sql_count(k) ==
    /\ bridge.pc = "loop"
    /\ bridge.msgs[k].thread \in {"count_written", "count_errors"}
    /\ IF bridge.msgs[k].thread = "count_written"
       THEN bridge' = [bridge EXCEPT !.stats.written = bridge.msgs[k].read + 1,
                                     !.msgs[k].written = TRUE,
                                     !.msgs[k].thread = "done"]
       ELSE bridge' = [bridge EXCEPT !.stats.errors = bridge.msgs[k].read + 1,
                                     !.msgs[k].error = TRUE,
                                     !.msgs[k].thread = "done"]
    /\ UNCHANGED <<framework, beacon, swarm, injector>>

\* the interpreter frees a connection object no thread refers to any more, which
\* closes its socket; when it does so is up to the interpreter
Collect(k) ==
    /\ bridge.pc = "loop"
    /\ bridge.msgs[k].thread = "done"
    /\ bridge.msgs[k].conn = "open"
    /\ bridge' = [bridge EXCEPT !.msgs[k].conn = "reclaimed"]
    /\ UNCHANGED <<framework, beacon, swarm, injector>>

\* the loop ends (duration over or Ctrl-C) and the statistics are printed
BridgeStops ==
    /\ bridge.pc = "loop"
    /\ bridge.handler.pc = "idle"
    /\ bridge' = [bridge EXCEPT !.pc = "completed"]
    /\ UNCHANGED <<framework, beacon, swarm, injector>>

NextBridge ==
    \/ on_message
    \/ on_message_error
    \/ \E k \in 1..MaxMessages : k <= Len(bridge.msgs) /\ write_to_sql(k)
    \/ \E k \in 1..MaxMessages : k <= Len(bridge.msgs) /\ write_to_sql_count(k)
    \/ \E k \in 1..MaxMessages : k <= Len(bridge.msgs) /\ Collect(k)
    \/ BridgeStops

SpecBridge == InitBridge /\ [][NextBridge]_vars

\* the messages on_message has handled to its end
Handled == {k \in DOMAIN bridge.msgs : k < Len(bridge.msgs) \/ bridge.handler.pc = "idle"}

\* the number of elements of a set of messages that were counted as received
ReceivedCount == Cardinality({k \in DOMAIN bridge.msgs : bridge.msgs[k].received})

\* C22: a message whose JSON object has id 0 or no id is counted as received, and
\* its thread never connects to the database, never issues the UPDATE and counts
\* neither a write nor an error
C22_IdZeroNeverWritten ==
    \A k \in DOMAIN bridge.msgs :
        LET m == bridge.msgs[k]
        IN  (Decodes(m.payload) /\ m.payload.object /\ m.payload.id \in {"0", "absent"})
              => /\ m.received
                 /\ bridge.stats.received >= 1
                 /\ bridge.stats.received = ReceivedCount
                 /\ ~m.connected
                 /\ ~m.updated
                 /\ ~m.written
                 /\ ~m.error
                 /\ m.thread \in {"start", "done"}

\* a message without id and one with id 0 were handled, their threads are over,
\* and nothing was written
C22_Witness ==
    /\ Len(bridge.msgs) = 2
    /\ bridge.msgs[1].payload.object /\ bridge.msgs[1].payload.id = "absent"
    /\ bridge.msgs[2].payload.object /\ bridge.msgs[2].payload.id = "0"
    /\ bridge.msgs[1].thread = "done"
    /\ bridge.msgs[2].thread = "done"
    /\ bridge.stats = [received |-> 2, written |-> 0, errors |-> 0]

\* C23, as claimed: every message handled is counted as received, and one that
\* fails to decode triggers no database write.  Refuted: a message that fails to
\* decode is not counted as received.
C23_EveryMessageReceived ==
    /\ bridge.stats.received = Cardinality(Handled)
    /\ \A k \in DOMAIN bridge.msgs :
         ~Decodes(bridge.msgs[k].payload)
            => bridge.msgs[k].thread = "none" /\ ~bridge.msgs[k].connected

\* C23, the part that holds: a message that fails to decode starts no thread and
\* no database write, and its error is counted once on_message is over
C23_DecodeFailureDropped ==
    \A k \in DOMAIN bridge.msgs :
        ~Decodes(bridge.msgs[k].payload)
           => /\ bridge.msgs[k].thread = "none"
              /\ ~bridge.msgs[k].connected
              /\ ~bridge.msgs[k].updated
              /\ k \in Handled => bridge.msgs[k].error

\* a message that is not JSON was handled: an error and no message received
C23_Witness ==
    /\ Len(bridge.msgs) = 1
    /\ bridge.msgs[1].payload.utf8
    /\ ~bridge.msgs[1].payload.json
    /\ bridge.handler.pc = "idle"
    /\ bridge.stats = [received |-> 0, written |-> 0, errors |-> 1]

\* ----------------------------------------------- the DNS beacon (dns_beaconing.py)
\* the shared counters: Value("i", 0) for sent, ok, nxd, tout, other
Counters == {"sent", "ok", "nxd", "tout", "other"}

\* how resolver.resolve ends: an answer, or the exception the worker's except
\* clauses name, or an exception they do not name, which ends the worker
ResolveOutcomes == {"ok", "nxd", "tout", "other", "crash"}

\* a worker at the top of its loop
NewWorker == [pc |-> "loop", outcome |-> "", counter |-> "", read |-> 0]

InitBeacon ==
    /\ EngineIdle
    /\ FrameworkIdle
    /\ BridgeIdle
    /\ SwarmIdle
    /\ InjectorIdle
    /\ \E n \in 1..MaxWorkers :
         beacon = [pc |-> "running",
                   stop_event |-> FALSE,
                   value |-> [c \in Counters |-> 0],
                   lock |-> [c \in Counters |-> 0],
                   worker |-> [w \in 1..n |-> NewWorker],
                   queries |-> 0,
                   classified |-> 0]

\* the workers of this execution
Workers == DOMAIN beacon.worker

\* `while not stop_event.is_set()`: the worker leaves its loop or makes a query
LoopTest(w) ==
    /\ beacon.worker[w].pc = "loop"
    /\ IF beacon.stop_event
       THEN beacon' = [beacon EXCEPT !.worker[w].pc = "stopped"]
       ELSE /\ beacon.queries < MaxQueries
            /\ beacon' = [beacon EXCEPT !.worker[w].pc = "resolve",
                                        !.queries = beacon.queries + 1]
    /\ UNCHANGED <<framework, bridge, swarm, injector>>

\* resolver.resolve returns or raises; the try statement picks the counter
Resolve(w) ==
    /\ beacon.worker[w].pc = "resolve"
    /\ \E outcome \in ResolveOutcomes :
         IF outcome = "crash"
         THEN beacon' = [beacon EXCEPT !.worker[w].pc = "crashed",
                                       !.worker[w].outcome = outcome]
         ELSE beacon' = [beacon EXCEPT !.worker[w].pc = "acquire",
                                       !.worker[w].outcome = outcome,
                                       !.worker[w].counter = outcome,
                                       !.classified = beacon.classified + 1]
    /\ UNCHANGED <<framework, bridge, swarm, injector>>

\* mutant: the counter is updated without its lock
LockFree_Unlocked(c) == TRUE

\* the lock of a counter is free
LockFree(c) == beacon.lock[c] = 0

\* `with c.get_lock():` is entered and c.value is read
Acquire(w) ==
    /\ beacon.worker[w].pc = "acquire"
    /\ LockFree(beacon.worker[w].counter)
    /\ beacon' = [beacon EXCEPT !.lock[beacon.worker[w].counter] = w,
                                !.worker[w].read = beacon.value[beacon.worker[w].counter],
                                !.worker[w].pc = "store"]
    /\ UNCHANGED <<framework, bridge, swarm, injector>>

\* c.value is stored and the lock released; after the outcome counter comes sent,
\* after sent the sleep and the top of the loop
Store(w) ==
    /\ beacon.worker[w].pc = "store"
    /\ beacon' = [beacon EXCEPT
          !.value[beacon.worker[w].counter] = beacon.worker[w].read + 1,
          !.lock[beacon.worker[w].counter] = 0,
          !.worker[w].counter = IF beacon.worker[w].counter = "sent" THEN "" ELSE "sent",
          !.worker[w].pc = IF beacon.worker[w].counter = "sent" THEN "loop" ELSE "acquire"]
    /\ UNCHANGED <<framework, bridge, swarm, injector>>

\* _handle_sig or the finally clause of main: stop_event.set()
StopEvent ==
    /\ beacon.pc = "running"
    /\ ~beacon.stop_event
    /\ beacon' = [beacon EXCEPT !.stop_event = TRUE]
    /\ UNCHANGED <<framework, bridge, swarm, injector>>

NextBeacon ==
    \/ \E w \in 1..MaxWorkers : w \in Workers /\ LoopTest(w)
    \/ \E w \in 1..MaxWorkers : w \in Workers /\ Resolve(w)
    \/ \E w \in 1..MaxWorkers : w \in Workers /\ Acquire(w)
    \/ \E w \in 1..MaxWorkers : w \in Workers /\ Store(w)
    \/ StopEvent

SpecBeacon == InitBeacon /\ [][NextBeacon]_vars

\* the workers have left their loop, stopped or crashed
Quiescent == \A w \in Workers : beacon.worker[w].pc \in {"stopped", "crashed"}

TempFloor == 15000
TempCeiling == 90000
BatteryFloor == 10000
BatteryFull == 100000
PressureFloor == 800000

\* max(a, b) and min(a, b)
Larger(a, b) == IF a >= b THEN a ELSE b

Smaller(a, b) == IF a <= b THEN a ELSE b

\* mutant: the temperature is capped but has no floor
ClampTemp_CeilingOnly(t) == Smaller(t, TempCeiling)

\* max(15.0, min(self.temp, 90.0))
ClampTemp(t) == Larger(TempFloor, Smaller(t, TempCeiling))

\* the battery after the decrement, recharged if it would be below 10.0
Discharge(battery, decrement, recharge) ==
    IF battery - decrement < BatteryFloor THEN recharge ELSE battery - decrement

\* max(800.0, self.pressure)
ClampPressure(p) == Larger(PressureFloor, p)

\* the draws of update_physics: uniform(-0.5, 0.5), uniform(0.001, 0.01),
\* uniform(90.0, 100.0), uniform(-1.0, 1.0), at their ends
TempSteps == {-500, 500}

BatterySteps == {1, 10}

Recharges == {90000, BatteryFull}

PressureSteps == {-1000, 1000}

\* sensor values a device can have reached when a cycle begins: fresh ones
\* (temp in [20, 30], battery in [80, 100], pressure in [1000, 1015]) and ones
\* at and next to the limits
Temps == {TempFloor, 15200, 25000, TempCeiling}

Batteries == {BatteryFloor, 10005, 80000, BatteryFull}

Pressures == {PressureFloor, 800500, 1015000}

\* the device ids of RANGE_START..RANGE_END, and a negative one
DevIds == {-1, 150, 151, 152}

\* mutant: two personalities only
Personality_ModTwo(dev_id) == dev_id % 2

\* self.personality = dev_id % 3
Personality(dev_id) == dev_id % 3

InitSwarm ==
    /\ EngineIdle
    /\ FrameworkIdle
    /\ BridgeIdle
    /\ BeaconIdle
    /\ InjectorIdle
    /\ \E dev_id \in DevIds, temp \in Temps, battery \in Batteries, pressure \in Pressures :
         swarm = [pc |-> "loop", dev_id |-> dev_id, personality |-> Personality(dev_id),
                  running |-> TRUE, temp |-> temp, battery |-> battery,
                  pressure |-> pressure, cycle |-> 0, calls |-> <<>>]

\* `while self.running:` is true and update_physics opens the cycle
update_physics ==
    /\ swarm.pc = "loop"
    /\ swarm.running
    /\ swarm.cycle < MaxCycles
    /\ \E dt \in TempSteps, db \in BatterySteps, recharge \in Recharges, dp \in PressureSteps :
         swarm' = [swarm EXCEPT
            !.temp = ClampTemp(swarm.temp + dt),
            !.battery = Discharge(swarm.battery, db, recharge),
            !.pressure = ClampPressure(swarm.pressure + dp),
            !.cycle = swarm.cycle + 1,
            !.calls = <<"update_physics">>,
            !.pc = "protocols"]
    /\ UNCHANGED <<framework, bridge, beacon, injector>>

\* the sends of a cycle for a personality, given the three random draws
ProtocolCalls(personality, http_hybrid, http_legacy, mqtt_legacy) ==
    IF personality = 0
    THEN <<"send_mqtt">> \o (IF http_hybrid THEN <<"send_http">> ELSE <<>>)
    ELSE IF personality = 1 THEN <<"send_mqtt">>
    ELSE IF personality = 2
    THEN <<"send_udp">> \o (IF http_legacy THEN <<"send_http">> ELSE <<>>)
                       \o (IF mqtt_legacy THEN <<"send_mqtt">> ELSE <<>>)
    ELSE <<>>

\* the if statement on self.personality, up to the sleep that ends the cycle
Protocols ==
    /\ swarm.pc = "protocols"
    /\ \E http_hybrid \in BOOLEAN, http_legacy \in BOOLEAN, mqtt_legacy \in BOOLEAN :
         swarm' = [swarm EXCEPT
            !.calls = swarm.calls \o ProtocolCalls(swarm.personality, http_hybrid,
                                                  http_legacy, mqtt_legacy),
            !.pc = "sleep"]
    /\ UNCHANGED <<framework, bridge, beacon, injector>>

\* time.sleep(random.uniform(3.0, 6.0)) is over
Sleep ==
    /\ swarm.pc = "sleep"
    /\ swarm' = [swarm EXCEPT !.pc = "loop"]
    /\ UNCHANGED <<framework, bridge, beacon, injector>>

\* stop(), called by the main thread
StopDevice ==
    /\ swarm.pc \in {"loop", "protocols", "sleep"}
    /\ swarm.running
    /\ swarm' = [swarm EXCEPT !.running = FALSE]
    /\ UNCHANGED <<framework, bridge, beacon, injector>>

\* `while self.running:` is false
DeviceEnds ==
    /\ swarm.pc = "loop"
    /\ ~swarm.running
    /\ swarm' = [swarm EXCEPT !.pc = "stopped"]
    /\ UNCHANGED <<framework, bridge, beacon, injector>>

NextSwarm ==
    \/ update_physics
    \/ Protocols
    \/ Sleep
    \/ StopDevice
    \/ DeviceEnds

SpecSwarm == InitSwarm /\ [][NextSwarm]_vars

\* the sensor values are within their limits
PhysicsInRange ==
    /\ TempFloor <= swarm.temp /\ swarm.temp <= TempCeiling
    /\ PressureFloor <= swarm.pressure
    /\ BatteryFloor <= swarm.battery /\ swarm.battery <= BatteryFull

\* an update either lowers the battery by its decrement and leaves it at 10.0 or
\* above, or, when the decrement would leave it below 10.0, resets it into
\* [90.0, 100.0]
RechargeInSameUpdate ==
    swarm'.cycle # swarm.cycle
        => /\ swarm.battery - 1 < BatteryFloor
                => swarm'.battery >= 90000 /\ swarm'.battery <= BatteryFull
           /\ swarm'.battery >= swarm.battery
                => /\ swarm.battery - 10 < BatteryFloor
                   /\ swarm'.battery >= 90000 /\ swarm'.battery <= BatteryFull

\* C25: after any number of physics updates temp is within [15.0, 90.0], pressure
\* is at least 800.0 and battery is within [10.0, 100.0]; an update whose
\* decrement would leave the battery below 10.0 resets it into [90.0, 100.0] in
\* that same update
C25_PhysicsBounded ==
    /\ [](swarm.cycle >= 1 => PhysicsInRange)
    /\ [][RechargeInSameUpdate]_vars

\* two updates: the first recharged the battery, and the temperature and the
\* pressure are at their floors
C25_Witness ==
    /\ swarm.cycle = 2
    /\ swarm.battery >= 89000
    /\ swarm.temp = TempFloor
    /\ swarm.pressure = PressureFloor

\* the number of times a call occurs in the calls of the cycle
CallCount(name) == Cardinality({k \in DOMAIN swarm.calls : swarm.calls[k] = name})

\* the personality is dev_id mod 3; a cycle that has reached its sleep began with
\* exactly one physics update; Hybrid sent MQTT and no UDP, MQTT-only sent MQTT and
\* neither HTTP nor UDP, Legacy sent a UDP keepalive
PersonalityRespected ==
    /\ swarm.pc # "idle" =>
         /\ swarm.personality \in {0, 1, 2}
         /\ (swarm.dev_id - swarm.personality) % 3 = 0
    /\ swarm.pc = "sleep" =>
         /\ swarm.calls[1] = "update_physics"
         /\ CallCount("update_physics") = 1
         /\ swarm.personality = 0 =>
               CallCount("send_mqtt") = 1 /\ CallCount("send_udp") = 0
         /\ swarm.personality = 1 =>
               /\ CallCount("send_mqtt") = 1
               /\ CallCount("send_http") = 0
               /\ CallCount("send_udp") = 0
         /\ swarm.personality = 2 => CallCount("send_udp") = 1

TOPICS_TO_ATTACK == <<"planta/sensor/1", "planta/sensor/2">>

\* how client.publish ends: rc MQTT_ERR_SUCCESS, another rc, or an exception
PublishOutcomes == {"success", "rc_error", "raises"}

InitInjector ==
    /\ EngineIdle
    /\ FrameworkIdle
    /\ BridgeIdle
    /\ BeaconIdle
    /\ SwarmIdle
    /\ injector = [pc |-> "connect", topic_index |-> 0, msg_count |-> 0,
                   published_ok |-> 0, published_fail |-> 0, res |-> "",
                   attempts |-> <<>>, exit_code |-> -1]

\* client.connect and the wait for on_connect: connected, or RuntimeError (or the
\* exception of connect), which ends the script with status 1
Connect ==
    /\ injector.pc = "connect"
    /\ \E connected \in BOOLEAN :
         IF connected THEN injector' = [injector EXCEPT !.pc = "publish"]
         ELSE injector' = [injector EXCEPT !.pc = "exited", !.exit_code = 1]
    /\ UNCHANGED <<framework, bridge, beacon, swarm>>

\* client.publish(current_topic, ...) for the topic at topic_index
Publish ==
    /\ injector.pc = "publish"
    /\ Len(injector.attempts) < MaxPublishes
    /\ \E outcome \in PublishOutcomes :
         LET current_topic == TOPICS_TO_ATTACK[injector.topic_index + 1]
             made == Append(injector.attempts, [topic |-> current_topic, res |-> outcome])
         IN  IF outcome = "raises"
             THEN injector' = [injector EXCEPT !.attempts = made, !.res = outcome,
                                               !.pc = "exited", !.exit_code = 1]
             ELSE injector' = [injector EXCEPT !.attempts = made, !.res = outcome,
                                               !.pc = "count"]
    /\ UNCHANGED <<framework, bridge, beacon, swarm>>

\* `if res.rc == mqtt.MQTT_ERR_SUCCESS:` and the counter of its branch
Count ==
    /\ injector.pc = "count"
    /\ IF injector.res = "success"
       THEN injector' = [injector EXCEPT !.published_ok = injector.published_ok + 1,
                                         !.msg_count = injector.msg_count + 1,
                                         !.pc = "advance"]
       ELSE injector' = [injector EXCEPT !.published_fail = injector.published_fail + 1,
                                         !.pc = "advance"]
    /\ UNCHANGED <<framework, bridge, beacon, swarm>>

\* mutant: the topic changes only after a publish that succeeded
NextTopicIndex_OnSuccess(topic_index, res) ==
    IF res = "success" THEN (topic_index + 1) % Len(TOPICS_TO_ATTACK) ELSE topic_index

\* topic_index = (topic_index + 1) % num_topics
NextTopicIndex(topic_index, res) == (topic_index + 1) % Len(TOPICS_TO_ATTACK)

\* the topic index moves on and the loop sleeps
Advance ==
    /\ injector.pc = "advance"
    /\ injector' = [injector EXCEPT
          !.topic_index = NextTopicIndex(injector.topic_index, injector.res),
          !.pc = "publish"]
    /\ UNCHANGED <<framework, bridge, beacon, swarm>>

\* Ctrl-C: KeyboardInterrupt is raised wherever the loop is, the totals are
\* printed and the script ends
InjectorInterrupted ==
    /\ injector.pc \in {"publish", "count", "advance"}
    /\ injector' = [injector EXCEPT !.pc = "exited", !.exit_code = 0]
    /\ UNCHANGED <<framework, bridge, beacon, swarm>>

NextInjector ==
    \/ Connect
    \/ Publish
    \/ Count
    \/ Advance
    \/ InjectorInterrupted

SpecInjector == InitInjector /\ [][NextInjector]_vars

\* the publish attempts that returned: all but one that raised
ReturnedPublishes ==
    {k \in DOMAIN injector.attempts : injector.attempts[k].res # "raises"}

InterruptCode(rc) == rc < 0 \/ rc \in {130, 143}

\* C28, as claimed: for every real run, a child return code that is negative, 130
\* or 143 is recorded as 0.  Refuted by an indefinite run the user did not
\* interrupt.
C28_NormalizedForEveryRun ==
    (Normalized /\ InterruptCode(proc.rc)) => run.returncode = 0

\* C28, amended: a child return code that is negative, 130 or 143 is recorded as 0
\* when the run has a declared duration or the user interrupted it; an indefinite
\* run the user did not interrupt records the child's return code as it is; in
\* both cases the result and run_metadata.json hold the recorded code
C28_NormalizedWhenBoundedOrInterrupted ==
    Normalized =>
        /\ (run.has_duration \/ run.user_interrupted) /\ InterruptCode(proc.rc)
              => run.returncode = 0
        /\ ~(run.has_duration \/ run.user_interrupted) => run.returncode = proc.rc
        /\ ~InterruptCode(proc.rc) => run.returncode = proc.rc
        /\ pc \in {"loop", "exited"} =>
              /\ results[Len(results)].returncode = run.returncode
              /\ run_metadata[run.run_id_unique].returncode = run.returncode

\* an indefinite run the user did not interrupt, whose child ended with 143, has
\* returned with 143
C28_Witness ==
    /\ pc = "loop"
    /\ run.launched
    /\ ~run.has_duration
    /\ ~run.user_interrupted
    /\ proc.rc = 143
    /\ results[Len(results)].returncode = 143

\* the positions of execute_run inside its try statement: the child is supervised
Supervising ==
    pc \in {"duration_loop", "expiry_check", "expiry_send", "expiry_wait",
            "stream_check", "stream_readline", "final_wait", "read_remaining"}

\* C29: handle_sigint is the installed SIGINT handler only while the child of one
\* run is supervised: before a run, between runs, after the scenario and after an
\* exception out of the supervision it is not installed
C29_HandlerScoped ==
    /\ handler_installed => Supervising /\ proc.state # "none"
    /\ pc \in {"load", "loop", "prepare", "start_marker", "execute", "install_handler",
               "end_marker", "save_run", "exited"} => ~handler_installed

\* the second run is being prepared after a first run that the user interrupted,
\* and the handler is not installed
C29_Witness ==
    /\ pc = "prepare"
    /\ i = 2
    /\ user_sigints = 1
    /\ Len(results) = 1
    /\ ~handler_installed

\* an exception while the output was read ended the invocation with the child
\* still running, and the handler is not installed
C29_WitnessException ==
    /\ pc = "exited"
    /\ error_kind = "UnicodeDecodeError"
    /\ proc.state = "alive"
    /\ ~handler_installed

\* ------------------------------------------------------------------ progress
\* the steps of the engine's own thread: run_scenario and execute_run are
\* sequential code, so a step that can be taken is taken; the child's writes and
\* exit, the user's interrupt and undecodable output are the environment's
EngineNext ==
    \/ LoadScenario
    \/ NextRun
    \/ FinishScenario
    \/ PrepareRun
    \/ SendStartMarker
    \/ DryRunSkip
    \/ Popen
    \/ InstallHandler
    \/ DurationLoop
    \/ ExpiryCheck
    \/ ExpirySend
    \/ ExpiryWait
    \/ StreamCheck
    \/ StreamReadline
    \/ FinalWait
    \/ ReadRemaining
    \/ SendEndMarker
    \/ SaveRunMetadata

\* the engine under the scheduling of a running interpreter
SpecLive == Spec /\ WF_vars(EngineNext)

\* execute_run is over for the current run: it returned its result, or an exception
\* ended the invocation
RunEnded == Returned(i) \/ pc = "exited"

\* the current run has no declared duration and handle_sigint has run for it
IndefiniteInterrupted ==
    /\ run.launched
    /\ ~run.has_duration
    /\ run.user_interrupted

\* C30: once the user interrupts a run without a declared duration, the run
\* eventually ends, whatever the child does afterwards (exit, ignore the
\* interrupt, write or stay silent)
C30_InterruptedRunEnds == IndefiniteInterrupted ~> RunEnded

\* C30, what the code gives: the interrupted run ends if the interrupt found the
\* engine outside the blocking readline, or the child then writes a line or exits
C30_InterruptedRunEndsUnlessBlocked ==
    (IndefiniteInterrupted
        /\ (pc # "stream_readline" \/ pipe # <<>> \/ proc.state # "alive")) ~> RunEnded

\* the engine is inside readline with nothing to read, the child is alive and has
\* been sent the interrupt
C30_Witness ==
    /\ IndefiniteInterrupted
    /\ pc = "stream_readline"
    /\ pipe = <<>>
    /\ proc.state = "alive"
    /\ proc.sigints = 1
    /\ handler_installed

\* the interrupt found the engine at the loop test: the child that ignored it was
\* killed after the grace period and the run returned
C30_WitnessKilled ==
    /\ IndefiniteInterrupted
    /\ Returned(i)
    /\ proc.t_kill >= 0
    /\ proc.rc = -9

\* C31: the run ids of the run executions of an invocation are pairwise distinct,
\* so every returned run has a run_metadata.json of its own, holding what that run
\* recorded
C31_RunIdsDistinct ==
    /\ \A j, k \in 1..Len(results) :
         j # k => results[j].run_id # results[k].run_id
    /\ Cardinality(DOMAIN run_metadata) = Len(results)
    /\ \A k \in 1..Len(results) :
         /\ results[k].run_id \in DOMAIN run_metadata
         /\ run_metadata[results[k].run_id].returncode = results[k].returncode

\* what the code gives: two run executions get distinct run ids when their runs
\* declare different ids or the executions are prepared in different seconds
C31_DistinctUnlessSameIdAndSecond ==
    \A j, k \in 1..Len(results) :
        (j # k /\ results[j].run_id = results[k].run_id) =>
            /\ scenario[results[j].index].id = scenario[results[k].index].id
            /\ results[k].start_time \div TicksPerSec = results[j].start_time \div TicksPerSec

\* two runs declaring the same id were executed within one second: both results
\* carry one run id, and the one run_metadata.json holds the second run's record
C31_Witness ==
    /\ Len(results) = 2
    /\ results[1].run_id = results[2].run_id
    /\ results[1].returncode # results[2].returncode
    /\ DOMAIN run_metadata = {results[2].run_id}
    /\ run_metadata[results[2].run_id].returncode = results[2].returncode

\* the write tasks that are over
Finished == {k \in DOMAIN bridge.msgs : bridge.msgs[k].thread \in {"none", "done"}}

\* the connections that are open and that no write task will close
OpenConnections == {k \in DOMAIN bridge.msgs : bridge.msgs[k].conn = "open"}

\* C32: a write task that connected has closed its connection when it is over,
\* whether the UPDATE was committed or failed; with every task over no connection
\* is open
C32_ConnectionsClosed ==
    /\ \A k \in Finished :
         bridge.msgs[k].connected => bridge.msgs[k].conn = "closed"
    /\ Finished = DOMAIN bridge.msgs => OpenConnections = {}

\* what the code gives: the task closes the connection of a committed UPDATE, a
\* task that did not connect has none, and every connection belongs to the one
\* task that opened it
C32_ClosedAfterCommit ==
    \A k \in DOMAIN bridge.msgs :
        LET m == bridge.msgs[k]
        IN  /\ m.updated => m.conn = "closed"
            /\ ~m.connected <=> m.conn = "none"
            /\ m.conn # "none" => m.thread # "none"

\* every task is over, one UPDATE was committed and one failed: the connection of
\* the failed one was left open
C32_Witness ==
    /\ Len(bridge.msgs) = 2
    /\ Finished = DOMAIN bridge.msgs
    /\ bridge.msgs[1].conn = "closed"
    /\ bridge.msgs[2].conn = "open"
    /\ bridge.msgs[2].error

\* the values of an environment that contain the placeholder marker
Unconfigured_(env) == {k \in DOMAIN env : Contains(env[k], "_PLACEHOLDER")}

\* C33, as claimed: the assembled environment of a run whose child was launched
\* (declared env, RUN_ID, OUT_DIR and the profile's TOOL_ARGS) has no value
\* containing _PLACEHOLDER, and neither has what the child got of it.  Refuted: the
\* profile's tool_args is injected after the scan.
C33_NoPlaceholderLaunched ==
    proc.state # "none" =>
        /\ Unconfigured_(run.env) = {}
        /\ \A k \in DOMAIN run.env : ~Contains(proc.env[k], "_PLACEHOLDER")

\* C33, amended: no child is launched for a run whose declared environment, RUN_ID
\* or OUT_DIR has a value containing _PLACEHOLDER, and the invocation ends with
\* PlaceholderNotConfigured at such a run; TOOL_ARGS injected from a profile is not
\* scanned and reaches the child as the profile has it, so the only value of a
\* launched child's assembled environment that can contain the marker is the
\* profile's tool_args
C33_ScannedBeforeProfile ==
    /\ proc.state # "none" =>
         /\ Unconfigured_(run.env) \subseteq {"TOOL_ARGS"}
         /\ Unconfigured_(run.env) # {} => scenario[i].profile # "none"
         /\ scenario[i].profile = "template" =>
              /\ "TOOL_ARGS" \in DOMAIN proc.env
              /\ proc.env["TOOL_ARGS"] = "-p PORTS_PLACEHOLDER"
         /\ \A k \in DOMAIN scenario[i].env \ {"RUN_ID", "OUT_DIR", "TOOL_ARGS"} :
              ~Contains(scenario[i].env[k], "_PLACEHOLDER")
         /\ ~Contains(scenario[i].id, "_PLACEHOLDER")
    /\ \A p \in 1..Len(launches) :
         \A k \in DOMAIN scenario[launches[p]].env \ {"RUN_ID", "OUT_DIR"} :
              ~Contains(scenario[launches[p]].env[k], "_PLACEHOLDER")

\* a child runs with the template of the profile as its TOOL_ARGS
C33_Witness ==
    /\ proc.state = "alive"
    /\ scenario[i].profile = "template"
    /\ proc.env["TOOL_ARGS"] = "-p PORTS_PLACEHOLDER"
    /\ error_kind = ""

\* a run with an unconfigured value followed a run that was executed: the
\* invocation ended at it and one child was launched
C33_WitnessAborted ==
    /\ pc = "exited"
    /\ error_kind = "PlaceholderNotConfigured"
    /\ i = 2
    /\ launches = <<1>>

\* the configuration error the preparation of run k ends with, "" if none
ConfigError(k) ==
    IF HasPlaceholder(k) THEN "PlaceholderNotConfigured"
    ELSE IF scenario[k].script = "missing" THEN "ScriptNotFound"
    ELSE IF scenario[k].script = "not_executable" THEN "ScriptNotExecutable"
    ELSE IF scenario[k].profile = "missing" THEN "ProfileNotFound"
    ELSE ""

\* C34: for a run whose preparation ends with a configuration error no marker is
\* sent, no child is launched, no result is returned and no run_metadata.json is
\* written; the invocation ends at that run with that error, and the step that
\* aborts it leaves the markers, the children and the run_metadata.json files of
\* the runs before it as they were
C34_AbortedRunLeavesNoTrace ==
    /\ [](\A k \in 1..Len(scenario) :
            ConfigError(k) # "" =>
               /\ \A m \in 1..Len(markers) : markers[m].run # k
               /\ \A p \in 1..Len(launches) : launches[p] # k
               /\ ~Returned(k)
               /\ i <= k
               /\ (i = k /\ pc = "exited") =>
                     /\ error_kind = ConfigError(k)
                     /\ exit_status = 1
                     /\ proc.state = "none"
                     /\ Len(results) = k - 1
                     /\ \A id \in DOMAIN run_metadata :
                          \E j \in 1..Len(results) :
                             /\ results[j].run_id = id
                             /\ results[j].index < k)
    /\ [][(pc = "prepare" /\ pc' = "exited") =>
             /\ markers' = markers
             /\ launches' = launches
             /\ alive' = alive
             /\ results' = results
             /\ run_metadata' = run_metadata
             /\ scenario_metadata' = scenario_metadata]_vars

\* the second run's profile file is missing: the invocation ended there after a
\* first run that was executed, with the first run's markers, child and metadata
\* and nothing of the second
C34_Witness ==
    /\ pc = "exited"
    /\ i = 2
    /\ error_kind = "ProfileNotFound"
    /\ markers_enabled
    /\ Len(markers) = 2
    /\ launches = <<1>>
    /\ Len(results) = 1
    /\ DOMAIN run_metadata = {results[1].run_id}

\* the same after a script without the execute permission
C34_WitnessNotExecutable ==
    /\ pc = "exited"
    /\ i = 2
    /\ error_kind = "ScriptNotExecutable"
    /\ launches = <<1>>
    /\ Len(results) = 1

\* the start marker of run k went out on the socket
StartSent(k) ==
    \E m \in MarkersOf(k, StartEvents) : markers[m].outcome = "sent"

\* run k is behind the engine: a later run has begun or the invocation has ended
Behind(k) == i > k \/ (i = k /\ pc \in {"loop", "exited"})

\* C35, as claimed: a run whose start marker was sent has had its end marker
\* attempted, after the start marker, once a later run begins or the invocation
\* ends.  Refuted: an exception between the two sends ends the invocation with
\* the start marker unanswered.
C35_EndMarkerFollows ==
    \A k \in 1..Len(scenario) :
        (StartSent(k) /\ Behind(k)) =>
            \E s \in MarkersOf(k, StartEvents) : \E e \in MarkersOf(k, EndEvents) : s < e

\* what the code gives: the end marker follows unless Popen raised, the user's
\* interrupt arrived while the default handler was installed, or reading the
\* child's output raised
C35_EndMarkerUnlessException ==
    \A k \in 1..Len(scenario) :
        (StartSent(k) /\ Behind(k)
           /\ ~(i = k /\ error_kind \in {"OSError", "KeyboardInterrupt", "UnicodeDecodeError"})) =>
            \E s \in MarkersOf(k, StartEvents) : \E e \in MarkersOf(k, EndEvents) : s < e

\* the child could not be launched: the invocation ended with the start marker as
\* the only marker of the run
C35_Witness ==
    /\ pc = "exited"
    /\ error_kind = "OSError"
    /\ Len(markers) = 1
    /\ markers[1].outcome = "sent"
    /\ markers[1].event \in StartEvents
    /\ launches = <<>>

\* the user's interrupt arrived between Popen and the installation of the handler:
\* the start marker is the only marker and the child is still running
C35_WitnessInterrupt ==
    /\ pc = "exited"
    /\ error_kind = "KeyboardInterrupt"
    /\ Len(markers) = 1
    /\ markers[1].outcome = "sent"
    /\ alive = {1}

\* an interrupt was sent to the child of the current run, by the engine at the
\* expiry of the duration or by handle_sigint
InterruptSent == proc.sigints > 0

\* C36, as claimed: the return code is normalized to 0 only for a run whose child
\* was sent an interrupt; a child that ended on its own with a negative code or
\* with 130 or 143 is recorded with that code.  Refuted: a duration-bounded run is
\* normalized whether or not an interrupt was sent.
C36_NormalizedOnlyIfInterrupted ==
    (Normalized /\ ~InterruptSent /\ InterruptCode(proc.rc)) =>
        /\ run.returncode = proc.rc
        /\ run.returncode # 0

\* what the code gives: without an interrupt, the code of a child that ended on its
\* own is recorded as it is for a run without a usable duration, and as 0 for a
\* duration-bounded run
C36_NormalizedIfBounded ==
    (Normalized /\ ~InterruptSent /\ InterruptCode(proc.rc)) =>
        /\ ~run.user_interrupted
        /\ run.has_duration => run.returncode = 0
        /\ ~run.has_duration => run.returncode = proc.rc

\* a duration-bounded child was killed by SIGSEGV before its duration elapsed, no
\* interrupt having been sent: the run returned with return code 0
C36_Witness ==
    /\ Returned(i)
    /\ run.has_duration
    /\ ~InterruptSent
    /\ proc.rc = -11
    /\ proc.t_kill = -1
    /\ ResultOf(i).returncode = 0
    /\ run_metadata[ResultOf(i).run_id].returncode = 0

\* on_message and every write task have run to their end
BridgeQuiet == Finished = DOMAIN bridge.msgs /\ bridge.handler.pc = "idle"

\* the write tasks that committed their UPDATE
Committed == {k \in DOMAIN bridge.msgs : bridge.msgs[k].updated}

\* the messages that failed in on_message and the write tasks whose write failed
Failures ==
    {k \in DOMAIN bridge.msgs :
        \/ bridge.msgs[k].thread = "none"
        \/ (bridge.msgs[k].thread = "done" /\ ~bridge.msgs[k].updated
              /\ SensorId(bridge.msgs[k].payload) # "0")}

\* C37, as claimed: with every write task over, written is the number of tasks
\* that committed and errors the number of failed messages and failed writes.
\* Refuted: `stats[...] += 1` is a read and a store, and two threads that read the
\* same value store the same value.
C37_NoLostUpdate ==
    BridgeQuiet =>
        /\ bridge.stats.written = Cardinality(Committed)
        /\ bridge.stats.errors = Cardinality(Failures)

\* what the code gives: a counter never exceeds the number of its events, and is
\* at least one once an event of its kind was counted
C37_CountersBounded ==
    BridgeQuiet =>
        /\ bridge.stats.written <= Cardinality(Committed)
        /\ bridge.stats.errors <= Cardinality(Failures)
        /\ Committed # {} => bridge.stats.written >= 1
        /\ Failures # {} => bridge.stats.errors >= 1

\* two write tasks committed and both are over, and written is 1
C37_Witness ==
    /\ BridgeQuiet
    /\ Len(bridge.msgs) = 2
    /\ Committed = {1, 2}
    /\ bridge.stats.written = 1

\* a decode failure in on_message and a failed write: errors is 1
C37_WitnessErrors ==
    /\ BridgeQuiet
    /\ Len(bridge.msgs) = 2
    /\ Cardinality(Failures) = 2
    /\ bridge.msgs[1].updated = FALSE /\ bridge.msgs[1].connected
    /\ bridge.msgs[2].thread = "none"
    /\ bridge.stats.errors = 1

\* ------------------- detect_and_configure_placeholders on multi-run documents
\* the keys the runs declare; MARKER_HOST is also the key the menu stores the
\* value of scenario.markers.host under
ConfigKeys == {"MARKER_HOST", "TARGET_IP"}

\* sorted(env_vars.keys())
ConfigKeyOrder == <<"MARKER_HOST", "TARGET_IP">>

\* the values a run declares: with a default before the marker, the marker alone,
\* a marker that removing the marker leaves behind, no marker, and a value that
\* is not a string
ConfigValues ==
    {[str |-> TRUE, text |-> "10.0.0.5_PLACEHOLDER"],
     [str |-> TRUE, text |-> "_PLACEHOLDER"],
     [str |-> TRUE, text |-> "_PLACE_PLACEHOLDERHOLDER"],
     [str |-> TRUE, text |-> "80"],
     [str |-> FALSE, text |-> "80"]}

\* run['env'] of one run; a declared MARKER_HOST is the marker alone or has none
ConfigEnvs ==
    { env \in UNION { [keys -> ConfigValues] : keys \in SUBSET ConfigKeys } :
        "MARKER_HOST" \in DOMAIN env =>
            env["MARKER_HOST"].str /\ env["MARKER_HOST"].text \in {"_PLACEHOLDER", "80"} }

\* scenario.markers.host: no markers block, a configured host, hosts to configure
ConfigHosts == {"absent", "127.0.0.1", "HOST_PLACEHOLDER", "_PLACEHOLDER"}

\* the parsed scenario documents
ConfigDocs ==
    { [runs |-> rs, host |-> h] :
        rs \in UNION { [1..n -> ConfigEnvs] : n \in 1..MaxDocRuns }, h \in ConfigHosts }

\* what the user types at a prompt, before input().strip()
ConfigTyped == {"", " ", "10.0.0.9", "x_PLACEHOLDER"}

\* the last run that declares the key with a string value
LastRunWith(document, key) ==
    LET rs == { r \in DOMAIN document.runs :
                  key \in DOMAIN document.runs[r] /\ document.runs[r][key].str }
    IN  CHOOSE r \in rs : \A q \in rs : q <= r

\* markers['host'] is a string with the marker
HostToConfigure(document) ==
    document.host # "absent" /\ Contains(document.host, "_PLACEHOLDER")

\* env_vars after the two scans: every string value of every run under its key,
\* later runs replacing earlier ones, then markers.host under MARKER_HOST
env_vars(document) ==
    LET declared == { key \in ConfigKeys :
                        \E r \in DOMAIN document.runs :
                           key \in DOMAIN document.runs[r] /\ document.runs[r][key].str }
        keys == declared \cup (IF HostToConfigure(document) THEN {"MARKER_HOST"} ELSE {})
    IN  [key \in keys |->
           IF key = "MARKER_HOST" /\ HostToConfigure(document) THEN document.host
           ELSE document.runs[LastRunWith(document, key)][key].text]

\* defaults: the value without the marker, stripped; the value itself without marker
defaults(document) ==
    [key \in DOMAIN env_vars(document) |-> DefaultOf(env_vars(document)[key])]

\* mutant: only the values that hold the marker are replaced
Replace_MarkedOnly(document, user_values) ==
    [runs |-> [r \in DOMAIN document.runs |->
                 [key \in DOMAIN document.runs[r] |->
                    IF key \in DOMAIN user_values
                          /\ document.runs[r][key].text = env_vars(document)[key]
                    THEN [str |-> TRUE, text |-> user_values[key]]
                    ELSE document.runs[r][key]]],
     host |-> IF "MARKER_HOST" \in DOMAIN user_values
              THEN user_values["MARKER_HOST"] ELSE document.host]

\* the document that is dumped: run['env'][key] = user_values[key] for every key
\* of every run that was prompted for, markers.host = user_values['MARKER_HOST']
Replace(document, user_values) ==
    [runs |-> [r \in DOMAIN document.runs |->
                 [key \in DOMAIN document.runs[r] |->
                    IF key \in DOMAIN user_values
                    THEN [str |-> TRUE, text |-> user_values[key]]
                    ELSE document.runs[r][key]]],
     host |-> IF "MARKER_HOST" \in DOMAIN user_values
              THEN user_values["MARKER_HOST"] ELSE document.host]

\* a call of detect_and_configure_placeholders on a document that yaml has parsed
InitConfigure ==
    /\ EngineIdle
    /\ ScriptsIdle
    /\ CommandIdle
    /\ UtilityIdle
    /\ \E document \in ConfigDocs :
         call = [fn |-> "detect_and_configure_placeholders", done |-> FALSE,
                 pc |-> "scan", arg |-> document, keys |-> <<>>,
                 user_values |-> EmptyEnv, result |-> document, temporary |-> FALSE]

\* the scans of the runs and of markers.host; `if not env_vars: return scenario_path`
ScanDocument ==
    /\ call.fn = "detect_and_configure_placeholders"
    /\ call.pc = "scan"
    /\ LET Asked(key) == key \in DOMAIN env_vars(call.arg)
           keys == SelectSeq(ConfigKeyOrder, Asked)
       IN  IF keys = <<>>
           THEN call' = [call EXCEPT !.pc = "returned", !.done = TRUE]
           ELSE call' = [call EXCEPT !.pc = "prompt", !.keys = keys]
    /\ UNCHANGED <<engine, scripts, command, utility>>

\* one input(prompt).strip() for the first key left: Enter takes a default that
\* is not empty, without a default the prompt repeats, a typed value is taken
PromptUser ==
    /\ call.fn = "detect_and_configure_placeholders"
    /\ call.pc \in {"prompt", "required"}
    /\ \E typed \in ConfigTyped :
         LET key        == Head(call.keys)
             default    == defaults(call.arg)[key]
             user_input == Strip(typed)
             Take(value) ==
                call' = [call EXCEPT
                           !.user_values = (key :> value) @@ call.user_values,
                           !.keys = Tail(call.keys),
                           !.pc = IF Len(call.keys) = 1 THEN "write" ELSE "prompt"]
         IN  IF user_input = "" /\ default # "" THEN Take(default)
             ELSE IF user_input = "" THEN call' = [call EXCEPT !.pc = "required"]
             ELSE Take(user_input)
    /\ UNCHANGED <<engine, scripts, command, utility>>

\* the values are put in place and the document is dumped to the temporary file
WriteConfigured ==
    /\ call.fn = "detect_and_configure_placeholders"
    /\ call.pc = "write"
    /\ call' = [call EXCEPT !.result = Replace(call.arg, call.user_values),
                            !.temporary = TRUE, !.pc = "returned", !.done = TRUE]
    /\ UNCHANGED <<engine, scripts, command, utility>>

NextConfigure ==
    \/ ScanDocument
    \/ PromptUser
    \/ WriteConfigured

SpecConfigure == InitConfigure /\ [][NextConfigure]_vars

\* the string values of the run environments and markers.host of a document that
\* contain the marker
Marked(document) ==
    { <<r, key>> \in (DOMAIN document.runs) \X ConfigKeys :
         /\ key \in DOMAIN document.runs[r]
         /\ document.runs[r][key].str
         /\ Contains(document.runs[r][key].text, "_PLACEHOLDER") }
      \cup (IF HostToConfigure(document) THEN {<<0, "host">>} ELSE {})

\* every prompt was answered by a value without the marker
AnswersClean ==
    \A key \in DOMAIN call.user_values : ~Contains(call.user_values[key], "_PLACEHOLDER")

\* C38: when the configuration has returned and every prompt was answered by a
\* value without _PLACEHOLDER, the document handed to the engine has no run
\* environment value and no markers.host containing _PLACEHOLDER, in any run, and
\* detect_placeholders reports nothing for any run's string values
C38_ConfiguredHasNoPlaceholder ==
    (call.fn = "detect_and_configure_placeholders" /\ call.done /\ AnswersClean) =>
        /\ Marked(call.result) = {}
        /\ \A r \in DOMAIN call.result.runs :
             LET env  == call.result.runs[r]
                 strs == [key \in {k \in DOMAIN env : env[k].str} |-> env[key].text]
             IN  detect_placeholders(strs) = {}
        /\ Marked(call.arg) # {} => call.temporary

\* a document of two runs that declare the same key with different placeholders
\* and a markers.host to configure was configured with a default and a typed
\* value, and the written document has neither marker left
C38_Witness ==
    /\ call.fn = "detect_and_configure_placeholders"
    /\ call.done
    /\ call.temporary
    /\ AnswersClean
    /\ Len(call.arg.runs) = 2
    /\ "TARGET_IP" \in DOMAIN call.arg.runs[1]
    /\ "TARGET_IP" \in DOMAIN call.arg.runs[2]
    /\ call.arg.runs[1]["TARGET_IP"].text = "_PLACEHOLDER"
    /\ call.arg.runs[2]["TARGET_IP"].text = "10.0.0.5_PLACEHOLDER"
    /\ call.arg.host = "_PLACEHOLDER"
    /\ call.user_values = ("MARKER_HOST" :> "10.0.0.9") @@ ("TARGET_IP" :> "10.0.0.5")
    /\ call.result.host = "10.0.0.9"
    /\ call.result.runs[1]["TARGET_IP"].text = "10.0.0.5"

\* Enter was pressed for a value whose default still holds the marker: the written
\* document holds it too, and the answer is not one without _PLACEHOLDER
C38_WitnessMarkedDefault ==
    /\ call.fn = "detect_and_configure_placeholders"
    /\ call.done
    /\ Len(call.arg.runs) = 1
    /\ DOMAIN call.arg.runs[1] = {"TARGET_IP"}
    /\ call.arg.runs[1]["TARGET_IP"].text = "_PLACE_PLACEHOLDERHOLDER"
    /\ call.user_values = ("TARGET_IP" :> "_PLACEHOLDER")
    /\ Marked(call.result) # {}

\* --------------------------------------------- the logger (logger.py, core.py)
\* logging's levels in their order
LevelNo(level) ==
    CASE level = "DEBUG" -> 1 [] level = "INFO" -> 2 [] level = "WARNING" -> 3
      [] level = "ERROR" -> 4

LogLevels == {"DEBUG", "INFO", "WARNING", "ERROR"}

\* the level of the console handler: quiet before verbose
ConsoleLevel(verbose, quiet) ==
    IF quiet THEN "ERROR" ELSE IF verbose THEN "DEBUG" ELSE "INFO"

\* setup_logging: logger.handlers.clear(), a console handler, and a file handler at
\* DEBUG if log_dir is given; the handlers of the logger afterwards
setup_logging(log_dir, verbose, quiet) ==
    <<[kind |-> "console", level |-> ConsoleLevel(verbose, quiet), dir |-> ""]>>
      \o (IF log_dir # "" THEN <<[kind |-> "file", level |-> "DEBUG", dir |-> log_dir]>>
          ELSE <<>>)

\* an invocation of run_scenario as the logger sees it: the flags, the number of
\* runs, the runs prepared so far, the logger's handlers and what the console
\* handler has printed
InitLogging ==
    /\ EngineIdle
    /\ ScriptsIdle
    /\ CommandIdle
    /\ UtilityIdle
    /\ \E verbose, quiet, dry \in BOOLEAN : \E n \in 1..MaxRuns :
         call = [fn |-> "setup_logging", done |-> FALSE, pc |-> "start",
                 verbose |-> verbose, quiet |-> quiet, dry_run |-> dry, runs |-> n,
                 i |-> 0, handlers |-> <<>>, console |-> <<>>, setups |-> 0]

\* run_scenario: logger = setup_logging(log_dir=None, verbose=verbose, quiet=quiet)
ConfigureLogging ==
    /\ call.fn = "setup_logging"
    /\ call.pc = "start"
    /\ call' = [call EXCEPT !.handlers = setup_logging("", call.verbose, call.quiet),
                            !.setups = call.setups + 1,
                            !.pc = "loop"]
    /\ UNCHANGED <<engine, scripts, command, utility>>

\* execute_run: `if not dry_run: logger = setup_logging(log_dir=run_dir,
\* verbose=True, quiet=False)`
PrepareLogging ==
    /\ call.fn = "setup_logging"
    /\ call.pc = "loop"
    /\ call.i < call.runs
    /\ call' = [call EXCEPT
                  !.i = call.i + 1,
                  !.setups = IF call.dry_run THEN call.setups ELSE call.setups + 1,
                  !.handlers = IF call.dry_run THEN call.handlers
                               ELSE setup_logging("runs/" \o ToString(call.i + 1),
                                                  TRUE, FALSE)]
    /\ UNCHANGED <<engine, scripts, command, utility>>

\* logger.debug / info / warning / error: a handler emits a record of its level or
\* above; what the console handler emits is printed
Emit ==
    /\ call.fn = "setup_logging"
    /\ call.pc = "loop"
    /\ Len(call.console) < MaxLines
    /\ \E level \in LogLevels :
         /\ \E h \in 1..Len(call.handlers) :
              /\ call.handlers[h].kind = "console"
              /\ LevelNo(level) >= LevelNo(call.handlers[h].level)
         /\ call' = [call EXCEPT !.console = Append(call.console, level)]
    /\ UNCHANGED <<engine, scripts, command, utility>>

\* the loop is over and run_scenario returns
FinishLogging ==
    /\ call.fn = "setup_logging"
    /\ call.pc = "loop"
    /\ call.i = call.runs
    /\ call' = [call EXCEPT !.pc = "returned", !.done = TRUE]
    /\ UNCHANGED <<engine, scripts, command, utility>>

NextLogging ==
    \/ ConfigureLogging
    \/ PrepareLogging
    \/ Emit
    \/ FinishLogging

SpecLogging == InitLogging /\ [][NextLogging]_vars

\* the handlers of a kind
HandlersOf(kind) == {h \in 1..Len(call.handlers) : call.handlers[h].kind = kind}

\* C39, as claimed: once run_scenario has set the logger up, the console handler
\* has the level the flags select (ERROR when quiet) until the invocation ends,
\* nothing below that level is printed, and the logger has one console handler
\* and at most one file handler.  Refuted: the per-run setup puts the console
\* handler at DEBUG.
C39_ThresholdStays ==
    (call.fn = "setup_logging" /\ call.pc # "start") =>
        /\ Cardinality(HandlersOf("console")) = 1
        /\ Cardinality(HandlersOf("file")) <= 1
        /\ \A h \in HandlersOf("console") :
             call.handlers[h].level = ConsoleLevel(call.verbose, call.quiet)
        /\ \A m \in 1..Len(call.console) :
             LevelNo(call.console[m]) >= LevelNo(ConsoleLevel(call.verbose, call.quiet))

\* what the code gives: one console handler and at most one file handler after any
\* number of setups; the selected level holds in a dry run and until the first run
\* is prepared, and is DEBUG from then on; the file handler is the current run's
C39_OneConsoleOneFile ==
    (call.fn = "setup_logging" /\ call.pc # "start") =>
        /\ Cardinality(HandlersOf("console")) = 1
        /\ Cardinality(HandlersOf("file")) <= 1
        /\ \A h \in HandlersOf("console") :
             call.handlers[h].level =
                IF call.dry_run \/ call.i = 0
                THEN ConsoleLevel(call.verbose, call.quiet) ELSE "DEBUG"
        /\ \A h \in HandlersOf("file") :
             /\ ~call.dry_run
             /\ call.handlers[h].dir = "runs/" \o ToString(call.i)
             /\ call.handlers[h].level = "DEBUG"

\* run_scenario was called with quiet, two runs were prepared (three setups), and
\* an INFO record was printed on the console
C39_Witness ==
    /\ call.fn = "setup_logging"
    /\ call.quiet
    /\ ~call.dry_run
    /\ call.i = 2
    /\ call.setups = 3
    /\ Cardinality(HandlersOf("console")) = 1
    /\ Cardinality(HandlersOf("file")) = 1
    /\ call.console = <<"INFO">>

====
